---- MODULE Spec2Model ----
(***************************************************************************)
(* Recording processing pipeline of the Zoom automation service:           *)
(* ingestion (webhook/zoom_handler.py), the pipeline process_recording and *)
(* the bulk sweep (workers/processing_worker.py), manual retry             *)
(* (api/meetings.py) and the client resolver (services/client_service.py). *)
(*                                                                         *)
(* Every await of the code is a scheduling point.  One action is the code  *)
(* between two awaits that matter to other tasks: the return of an         *)
(* external call (normally, or by raising after the retry wrapper gave up) *)
(* together with the local assignments and the commit that follow it.      *)
(* A session keeps the objects it loaded (expire_on_commit=False), so a    *)
(* task works on the copy it read and a commit writes only the columns the *)
(* task assigned.                                                          *)
(***************************************************************************)
EXTENDS Integers, Sequences, FiniteSets, TLC

(* ---------------------------- bounds ----------------------------------- *)
MaxUuid == 2          \* distinct occurrence ids the webhook may deliver
MaxTasks == 1         \* requests and background tasks alive at once
MaxFailures == 4      \* calls of the pipeline that may raise, over all invocations
RaceTasks == 2        \* the same two bounds where requests and tasks overlap
RaceFailures == 0
SweepUuid == 1        \* the three bounds where sweeps of one recording overlap
SweepTasks == 2
SweepFailures == 2
ResolverFailures == 1 \* text-generation requests of the resolver that may raise
AttemptUuid == 1       \* the three bounds where retried attempts are steps
AttemptTasks == 1
AttemptFailures == 1
ClientsUuid == 2       \* the three bounds with the requests of the clients API
ClientsTasks == 1
ClientsFailures == 1
ClientsRaceUuid == 2   \* the same where two tasks overlap
ClientsRaceTasks == 2
ClientsRaceFailures == 0
AssignUuid == 2        \* the three bounds with manual assignments
AssignTasks == 1
AssignFailures == 1
ManualUuid == 1        \* the three bounds with rejected retry requests
ManualTasks == 2
ManualFailures == 1
MaxEvents == 2        \* events of the calendar around a meeting
LookupCallers == 1    \* calendar lookups in progress at a time
MaxAttempts == 4      \* the largest max_attempts of a call through the wrapper
RetryCallers == 1     \* calls through the wrapper in progress at a time

(* ------------------------- program constants --------------------------- *)
ErrorLimit == 2000    \* error_msg[:2000]
RetryCeiling == 3     \* DBRecording.retry_count < 3

None == "None"
PENDING == "pending"
DOWNLOADING == "downloading"
UPLOADING_YOUTUBE == "uploading_youtube"
TRANSCRIBING == "transcribing"
SUMMARIZING == "summarizing"
SAVING == "saving"
COMPLETED == "completed"
FAILED == "failed"

ProcessingStatus ==
    {PENDING, DOWNLOADING, UPLOADING_YOUTUBE, TRANSCRIBING, SUMMARIZING,
     SAVING, COMPLETED, FAILED}

UUIDs == 1..MaxUuid

\* Length of the text str(e) + traceback when the given call raises: a
\* short text for the notification calls, a long one for the others.
ErrorLength(call) ==
    IF call \in {"notify_ident", "notify_complete"} THEN 120 ELSE 2001

\* The unknown sentinel of the text-generation answer, and the names it may give.
Unknown == "unknown"
AiAnswers == {"", Unknown, "Acme"}
MeetingIds == {"m1", "m2"}

\* Arguments and answers of identify_client calls made on their own: titles
\* as the contents of their first full-width and first ASCII bracket pair
\* and the lower-cased client names that occur in them.
ResolverAnswers == AiAnswers \cup {"Beta", " Acme "}
Titles ==
    {[full |-> "", ascii |-> "", words |-> {}],
     [full |-> "", ascii |-> "", words |-> {"beta"}],
     [full |-> " Acme ", ascii |-> "Beta", words |-> {"acme", "beta"}],
     [full |-> "", ascii |-> "Beta", words |-> {"beta"}],
     [full |-> " ", ascii |-> "Acme", words |-> {"acme"}]}

(* --------------------- the recording-completed event ------------------- *)
\* The fields of the payload that the pipeline uses.  A title is kept as
\* the name it carries in brackets and the plain words it contains.
ZoomWebhookPayload(u) ==
    [meeting_uuid |-> u,
     meeting_id   |-> IF u = 1 THEN "m1" ELSE "m2",
     topic        |-> IF u = 1 THEN [full |-> "", ascii |-> "", words |-> {}]
                               ELSE [full |-> " Acme ", ascii |-> "",
                                     words |-> {"acme"}],
     start_time   |-> u]

VARIABLES
    recordings,   \* table recordings: sequence of rows, row i has id i
    clients,      \* table clients: sequence of rows, row i has id i
    tasks,        \* tasks[t]: a request or background task in progress, or idle
    ingest_scheduled, \* ingest_scheduled[u]: tasks queued by ingestion for u
    invocations,  \* invocations[r]: process_recording calls for r, by trigger
    returned,     \* returned[id]: the first client identify_client returned for id
    budget,       \* number of pipeline calls that may still raise
    settings      \* slack_enabled, auto_delete_after_processing

vars == <<recordings, clients, tasks, ingest_scheduled, invocations, returned,
          budget, settings>>

TaskIds == DOMAIN tasks

RecIds == 1..Len(recordings)

(* ----------------------------- rows ------------------------------------ *)
\* DBRecording as created by handle_recording_completed; error_message is
\* the length of the stored text (0: NULL), client_id 0 is NULL.
DBRecording(p) ==
    [zoom_meeting_uuid |-> p.meeting_uuid,
     zoom_meeting_id   |-> p.meeting_id,
     topic             |-> p.topic,
     start_time        |-> p.start_time,
     status            |-> PENDING,
     error_message     |-> 0,
     retry_count       |-> 0,
     youtube_url       |-> None,
     transcript        |-> None,
     summary           |-> None,
     decisions         |-> None,
     action_items      |-> None,
     client_id         |-> 0,
     calendar_event_id |-> None,
     notion_page_id    |-> None,
     completed_at      |-> None]

\* A title without brackets and without the name of any client.
NoTitle == [full |-> "", ascii |-> "", words |-> {}]

\* The caller has not called update_client_summary before.
NoPrevious ==
    [called |-> FALSE, snapshot |-> <<>>, cumulative |-> <<>>,
     meeting_count |-> 0, last_meeting_at |-> 0]

\* No external call of the invocation has raised.
NoRetried == [call |-> None, n |-> 0]

\* The locals of one call through the wrapper that async_retry builds:
\* the parameters, attempt, delay and last_exception (0: None), and what the
\* call has done so far: the outcome of each invocation of the wrapped
\* function, the delays slept, and how the call ended (value: the
\* invocation whose result was returned or whose exception was raised, 0
\* when the exception is not one of the function's).
NoWrapper ==
    [max_attempts |-> 0, initial_delay |-> 0, max_delay |-> 0,
     exponential_base |-> 0, attempt |-> 0, delay |-> 0, last_exception |-> 0,
     results |-> <<>>, sleeps |-> <<>>, outcome |-> None, value |-> 0]

\* The arguments of one find_event_by_zoom_meeting call made on its own,
\* the events the calendar listed for its window, in their order, and the
\* position in that list of the event it returned (0: None).
NoLookup ==
    [zoom_meeting_id |-> <<>>, topic |-> <<>>, events |-> <<>>, found |-> 0]

\* A task is a webhook request, a retry request or a sweep, and the
\* process_recording invocation each of them goes on to run: a background
\* task runs in the task of the request that queued it, the sweep awaits
\* process_recording itself.  uuid belongs to the webhook request, list and
\* idx to the sweep (with eligible, the recordings that were failed below
\* the ceiling at its select, and invoked, the calls it has made), the other
\* fields to process_recording: retry_count and downloaded_file are the
\* session's copy and the local variable, failed_at the call that raised,
\* calls the external calls made and hist the statuses the invocation and
\* its trigger have persisted.  title, zoom_meeting_id and excerpt are the
\* arguments of an identify_client call made on its own, seen the clients
\* its session has loaded and name the name it looks up or creates;
\* meetings and cumulative are the recordings update_client_summary selected
\* and the text it returned; wrapper belongs to a call through async_retry
\* made on its own, and retried is the last external call of the invocation
\* that had invocations raise, with their number.  snapshot and previous
\* belong to a caller of update_client_summary on its own: the recordings
\* table at the select of the call in progress, and what the caller's
\* previous call selected, returned and left on the client row; lookup
\* belongs to a calendar lookup made on its own.  partial_files counts the
\* files in the download directory that download_recording invocations of
\* this process_recording call opened before they raised.  client_row is
\* the session's copy of the client's meeting_count and last_meeting_at, and
\* propagated lists the arguments of the update_client_summary calls to the
\* external systems.
IdleTask ==
    [pc |-> "idle", rid |-> 0, origin |-> None, uuid |-> 0,
     list |-> <<>>, idx |-> 0, eligible |-> {}, invoked |-> <<>>,
     retry_count |-> 0,
     downloaded_file |-> FALSE, client |-> 0, client_notion |-> None,
     failed_at |-> None, e_len |-> 0, calls |-> {}, hist |-> <<>>,
     title |-> NoTitle, zoom_meeting_id |-> None, excerpt |-> FALSE,
     seen |-> <<>>, name |-> "", meetings |-> <<>>, cumulative |-> <<>>,
     wrapper |-> NoWrapper, retried |-> NoRetried,
     snapshot |-> <<>>, previous |-> NoPrevious, lookup |-> NoLookup,
     partial_files |-> 0, client_row |-> [meeting_count |-> 0, last_meeting_at |-> 0],
     propagated |-> <<>>]

\* A task queued or called for recording r; hist starts with the status the
\* trigger persisted, if it persisted one.
NewTask(r, origin, first) ==
    [IdleTask EXCEPT !.pc = "scheduled", !.rid = r, !.origin = origin,
                     !.hist = first]

FreeSlots == {t \in TaskIds : tasks[t].pc = "idle"}
\* The slot a new task takes (slots carry no meaning, the lowest free one).
FreeSlot == CHOOSE t \in FreeSlots : \A s \in FreeSlots : t <= s

\* process_recording has not been called for a recording yet.
NoInvocation == [ingest |-> 0, manual |-> 0, sweep |-> 0]

\* An empty database, no request in progress.
InitWith(max_uuid, max_tasks, max_failures, configs) ==
    /\ recordings = <<>>
    /\ clients = <<>>
    /\ tasks = [t \in 1..max_tasks |-> IdleTask]
    /\ ingest_scheduled = [u \in 1..max_uuid |-> 0]
    /\ invocations = <<>>
    /\ returned = [id \in MeetingIds |-> 0]
    /\ budget = max_failures
    /\ settings \in configs

\* Settings: every value of the two switches, or their defaults.
Settings == [slack_enabled : BOOLEAN, auto_delete_after_processing : BOOLEAN]
DefaultSettings ==
    {[slack_enabled |-> FALSE, auto_delete_after_processing |-> TRUE]}

InitRetry == InitWith(0, RetryCallers, 0, DefaultSettings)
InitManual == InitWith(ManualUuid, ManualTasks, ManualFailures, DefaultSettings)
InitClients == InitWith(ClientsUuid, ClientsTasks, ClientsFailures, DefaultSettings)
InitClientsRace ==
    InitWith(ClientsRaceUuid, ClientsRaceTasks, ClientsRaceFailures, DefaultSettings)
InitAttempts == InitWith(AttemptUuid, AttemptTasks, AttemptFailures, Settings)
Init == InitWith(MaxUuid, MaxTasks, MaxFailures, Settings)
InitRace == InitWith(MaxUuid, RaceTasks, RaceFailures, DefaultSettings)
InitSweeps == InitWith(SweepUuid, SweepTasks, SweepFailures, DefaultSettings)
\* One caller of identify_client at a time and no webhook.
InitResolver == InitWith(0, 1, ResolverFailures, DefaultSettings)

(* ----------------------------- ingestion ------------------------------- *)
\* select(DBRecording).where(zoom_meeting_uuid == uuid)
existing(rs, u) == \E i \in 1..Len(rs) : rs[i].zoom_meeting_uuid = u

\* Column(unique=True) on zoom_meeting_uuid: the INSERT is accepted only
\* when no row has the uuid.
UniqueUuidOff(rs, u) == TRUE
UniqueUuid(rs, u) == ~ existing(rs, u)

\* handle_recording_completed up to the duplicate check: an event without an
\* MP4 file, or for a uuid that has a row, returns without any change.
handle_recording_completed_check(u, has_mp4) ==
    /\ FreeSlots # {}
    /\ IF has_mp4 /\ ~ existing(recordings, u)
         THEN tasks' = [tasks EXCEPT ![FreeSlot] =
                          [IdleTask EXCEPT !.pc = "hook_insert", !.uuid = u]]
         ELSE UNCHANGED tasks
    /\ UNCHANGED <<recordings, clients, ingest_scheduled, invocations, returned,
                   budget, settings>>

\* session.add(recording); commit; background_tasks.add_task(process_recording, id)
\* A commit that violates the unique constraint raises and the request ends.
handle_recording_completed_insert(t) ==
    /\ tasks[t].pc = "hook_insert"
    /\ LET u == tasks[t].uuid IN
       IF UniqueUuid(recordings, u)
         THEN /\ recordings' = Append(recordings, DBRecording(ZoomWebhookPayload(u)))
              /\ tasks' = [tasks EXCEPT ![t] =
                              NewTask(Len(recordings) + 1, "ingest", <<PENDING>>)]
              /\ ingest_scheduled' = [ingest_scheduled EXCEPT ![u] = @ + 1]
              /\ invocations' = Append(invocations, NoInvocation)
         ELSE /\ tasks' = [tasks EXCEPT ![t] = IdleTask]
              /\ UNCHANGED <<recordings, ingest_scheduled, invocations, returned>>
    /\ UNCHANGED <<clients, returned, budget, settings>>

(* ------------------------- process_recording --------------------------- *)
\* The external calls of the pipeline in program order, then the two of the
\* failure handler.
CallOrder ==
    <<"download", "upload", "transcribe", "summarize", "identify",
      "get_or_create", "notify_ident", "client_page", "meeting_page", "sheet_master",
      "sheet_client", "calendar_find", "calendar_update", "rollup",
      "notion_rollup", "sheet_rollup", "notify_complete">>

CallIndex(c) == CHOOSE i \in 1..Len(CallOrder) : CallOrder[i] = c

\* A call may raise (its retry attempts exhausted) while the bound allows.
CanFail == budget > 0

(* the loop of the wrapper that async_retry builds *)
\* range(1, max_attempts + 1)
attempt_range(max_attempts) == 1..max_attempts

\* if attempt == max_attempts
is_last_attempt_never(attempt, max_attempts) == FALSE
is_last_attempt(attempt, max_attempts) == attempt = max_attempts

\* return await func(*args, **kwargs): the wrapper returns the result of
\* invocation k.
return_result_dropped(w, k) == w
return_result(w, k) == [w EXCEPT !.outcome = "returned", !.value = k]

\* raise, inside the except block, or an exception that the except clause
\* does not catch: the exception of invocation k leaves the wrapper.
raise_current(w, k) == [w EXCEPT !.outcome = "raised", !.value = k]

\* min(delay * exponential_base, max_delay)
next_delay(w) ==
    IF w.delay * w.exponential_base < w.max_delay
      THEN w.delay * w.exponential_base ELSE w.max_delay

\* The service methods decorated with @async_retry, by the call of the
\* pipeline that awaits them, with their max_attempts (summarize stands for
\* the three requests of the gather).  YouTubeService.upload_video and the
\* database calls of ClientService are not decorated.
async_retry_sites_without_download ==
    [transcribe |-> 3, summarize |-> 3, identify |-> 2,
     notify_ident |-> 3, client_page |-> 3, meeting_page |-> 3,
     sheet_master |-> 3, sheet_client |-> 3, calendar_find |-> 3,
     calendar_update |-> 3, rollup |-> 3, notion_rollup |-> 3,
     sheet_rollup |-> 3, notify_complete |-> 3, notify_error |-> 3]
async_retry_sites ==
    [download |-> 3, transcribe |-> 3, summarize |-> 3, identify |-> 2,
     notify_ident |-> 3, client_page |-> 3, meeting_page |-> 3,
     sheet_master |-> 3, sheet_client |-> 3, calendar_find |-> 3,
     calendar_update |-> 3, rollup |-> 3, notion_rollup |-> 3,
     sheet_rollup |-> 3, notify_complete |-> 3, notify_error |-> 3]

\* The invocations of a call that must raise for the call to raise: every
\* attempt of the wrapper, or the one invocation of a call made directly.
invocations_of(call) ==
    IF call \in DOMAIN async_retry_sites THEN async_retry_sites[call] ELSE 1

\* The call a task awaits at pc.
awaited_call(pc) ==
    IF pc = "infer" THEN "identify"
    ELSE IF pc = "rollup_commit" THEN "rollup"
    ELSE pc

\* except Exception: control goes to the failure handler.
on_exception_continue(pc_next) == pc_next
on_exception(pc_next) == "handler"

\* update_status: recording.status = status; commit.
update_status(rec, status) == [rec EXCEPT !.status = status]

\* recording.youtube_url = youtube_url; commit (right after the upload).
store_youtube_url_late(rec) == rec
store_youtube_url(rec) == [rec EXCEPT !.youtube_url = "url"]

\* error_msg[:2000], as the length of the text stored.
error_text(n) == IF n > ErrorLimit THEN ErrorLimit ELSE n

\* The failure handler's assignments: status, error_message, retry_count += 1
\* on the session's copy of the row (retry_count as loaded).
mark_failed_twice(rec, loaded_retry_count, n) ==
    [rec EXCEPT !.status = FAILED, !.error_message = error_text(n),
                !.retry_count = loaded_retry_count + 2]
mark_failed(rec, loaded_retry_count, n) ==
    [rec EXCEPT !.status = FAILED, !.error_message = error_text(n),
                !.retry_count = loaded_retry_count + 1]

\* Task t moves to pc with the call just made recorded.
Step(t, call, pc) == [tasks[t] EXCEPT !.pc = pc, !.calls = @ \cup {call}]
StepStatus(t, call, pc, status) ==
    [Step(t, call, pc) EXCEPT !.hist = Append(@, status)]

\* The call awaited at `call` raises (every invocation the wrapper still
\* had to make raised): nothing is persisted, the handler runs next; pc_next
\* is where a successful call would have gone.  (A refresh task has no
\* handler: the exception ends the background task.)
Raise(t, call, pc_next) ==
    /\ CanFail
    /\ budget' = budget - 1
    /\ tasks' = [tasks EXCEPT ![t] =
                   [Step(t, call, IF tasks[t].origin = "refresh"
                                    THEN "refreshed" ELSE on_exception(pc_next))
                    EXCEPT
                       !.failed_at = call, !.e_len = ErrorLength(call),
                       !.retried = [call |-> call, n |-> invocations_of(call)]]]
    /\ UNCHANGED <<recordings, clients, ingest_scheduled, invocations, returned, settings>>

Others == <<clients, ingest_scheduled, invocations, returned, budget, settings>>

\* select the row (the session's copy keeps retry_count as read), then
\* update_status(DOWNLOADING).
process_recording_start(t) ==
    /\ tasks[t].pc = "scheduled"
    /\ LET r == tasks[t].rid IN
         /\ recordings' = [recordings EXCEPT ![r] = update_status(@, DOWNLOADING)]
         /\ tasks' = [tasks EXCEPT ![t] =
                        [@ EXCEPT !.pc = "download",
                                  !.retry_count = recordings[r].retry_count,
                                  !.hist = Append(@, DOWNLOADING)]]
         /\ invocations' = [invocations EXCEPT ![r][tasks[t].origin] = @ + 1]
    /\ UNCHANGED <<clients, ingest_scheduled, returned, budget, settings>>

\* zoom_service.download_recording returns; update_status(UPLOADING_YOUTUBE).
process_recording_download(t) ==
    /\ tasks[t].pc = "download"
    /\ \/ /\ recordings' = [recordings EXCEPT ![tasks[t].rid] =
                              update_status(@, UPLOADING_YOUTUBE)]
          /\ tasks' = [tasks EXCEPT ![t] =
                         [StepStatus(t, "download", "upload", UPLOADING_YOUTUBE)
                            EXCEPT !.downloaded_file = TRUE]]
          /\ UNCHANGED Others
       \/ Raise(t, "download", "upload")

\* youtube_service.upload_video returns; the url is committed.
process_recording_upload(t) ==
    /\ tasks[t].pc = "upload"
    /\ \/ /\ recordings' = [recordings EXCEPT ![tasks[t].rid] = store_youtube_url(@)]
          /\ tasks' = [tasks EXCEPT ![t] = Step(t, "upload", "set_transcribing")]
          /\ UNCHANGED Others
       \/ Raise(t, "upload", "set_transcribing")

\* update_status(TRANSCRIBING)
process_recording_set_transcribing(t) ==
    /\ tasks[t].pc = "set_transcribing"
    /\ recordings' = [recordings EXCEPT ![tasks[t].rid] = update_status(@, TRANSCRIBING)]
    /\ tasks' = [tasks EXCEPT ![t] =
                   [@ EXCEPT !.pc = "transcribe", !.hist = Append(@, TRANSCRIBING)]]
    /\ UNCHANGED Others

\* transcription_service.transcribe returns; the transcript is committed.
process_recording_transcribe(t) ==
    /\ tasks[t].pc = "transcribe"
    /\ \/ /\ recordings' = [recordings EXCEPT ![tasks[t].rid].transcript = "text"]
          /\ tasks' = [tasks EXCEPT ![t] = Step(t, "transcribe", "set_summarizing")]
          /\ UNCHANGED Others
       \/ Raise(t, "transcribe", "set_summarizing")

\* update_status(SUMMARIZING)
process_recording_set_summarizing(t) ==
    /\ tasks[t].pc = "set_summarizing"
    /\ recordings' = [recordings EXCEPT ![tasks[t].rid] = update_status(@, SUMMARIZING)]
    /\ tasks' = [tasks EXCEPT ![t] =
                   [@ EXCEPT !.pc = "summarize", !.hist = Append(@, SUMMARIZING)]]
    /\ UNCHANGED Others

\* recording.summary, .decisions, .action_items = the three results; commit.
store_summaries_partial(rec) == [rec EXCEPT !.summary = "text"]
store_summaries(rec) ==
    [rec EXCEPT !.summary = "text", !.decisions = "text", !.action_items = "text"]

\* asyncio.gather of the three text-generation requests returns (it raises
\* as soon as one of them raises); the three results are committed together.
process_recording_summarize(t) ==
    /\ tasks[t].pc = "summarize"
    /\ \/ /\ recordings' = [recordings EXCEPT ![tasks[t].rid] = store_summaries(@)]
          /\ tasks' = [tasks EXCEPT ![t] = Step(t, "summarize", "identify")]
          /\ UNCHANGED Others
       \/ Raise(t, "summarize", "identify")

(* --------------------------- client resolver --------------------------- *)
\* str.lower() on the names of the model.
Lower(s) == IF s = "Acme" THEN "acme" ELSE IF s = "Beta" THEN "beta" ELSE s

\* str.strip() on the bracket contents and answers of the model.
Strip(s) == IF s = " Acme " THEN "Acme" ELSE IF s = " " THEN "" ELSE s

\* DBClient(name=..., zoom_meeting_ids='["id"]', title_patterns='["name"]');
\* last_meeting_at 0 and cumulative_summary <<>> are NULL.
DBClientNoId(name, zoom_meeting_id) ==
    [name |-> name, zoom_meeting_ids |-> {},
     title_patterns |-> {name}, notion_page_id |-> None, meeting_count |-> 0,
     last_meeting_at |-> 0, cumulative_summary |-> <<>>]
DBClient(name, zoom_meeting_id) ==
    [name |-> name, zoom_meeting_ids |-> {zoom_meeting_id},
     title_patterns |-> {name}, notion_page_id |-> None, meeting_count |-> 0,
     last_meeting_at |-> 0, cumulative_summary |-> <<>>]

\* Column(unique=True) on clients.name: the INSERT is accepted only when no
\* row has the name.
UniqueName(cs, name) == \A i \in 1..Len(cs) : cs[i].name # name

\* The first of the matching rows S (a loop over the clients that returns
\* at the first match), 0 when there is none.
FirstClient(S) ==
    IF S = {} THEN 0 ELSE CHOOSE i \in S : \A j \in S : i <= j

\* The arguments of the identify_client call task t makes: process_recording
\* passes the recording's topic and meeting id and the start of the
\* transcript, None when the transcript is empty.
meeting_title(t) ==
    IF tasks[t].origin = "resolver" THEN tasks[t].title
                                    ELSE recordings[tasks[t].rid].topic
zoom_meeting_id(t) ==
    IF tasks[t].origin = "resolver" THEN tasks[t].zoom_meeting_id
                                    ELSE recordings[tasks[t].rid].zoom_meeting_id
transcript_start(t) ==
    IF tasks[t].origin = "resolver" THEN tasks[t].excerpt
                                    ELSE recordings[tasks[t].rid].transcript # None

\* The session's copies after a select that returns the rows S of cs: a row
\* the session holds already keeps the attributes it was loaded with.
Load(seen, cs, S) ==
    [c \in DOMAIN seen \cup S |-> IF c \in DOMAIN seen THEN seen[c] ELSE cs[c]]

\* Strategy 1: the first client whose known ids contain the meeting id.
match_by_meeting_id_off(cs, id) == 0
match_by_meeting_id(cs, id) ==
    FirstClient({i \in DOMAIN cs : id \in cs[i].zoom_meeting_ids})

\* Strategy 2: the stripped content of the first full-width bracket pair of
\* the title, of its first ASCII pair when it has no full-width pair, ""
\* for None; the content of a pair is never empty ((.+?) in the pattern).
extract_client_from_title_ascii_first(title) ==
    IF title.ascii # "" THEN Strip(title.ascii) ELSE Strip(title.full)
extract_client_from_title(title) ==
    IF title.full # "" THEN Strip(title.full) ELSE Strip(title.ascii)

\* Strategy 3: the first client one of whose patterns, or whose name,
\* occurs in the lower-cased title.
match_by_title_pattern(cs, title) ==
    FirstClient({i \in DOMAIN cs :
                    \/ \E p \in cs[i].title_patterns : Lower(p) \in title.words
                    \/ Lower(cs[i].name) \in title.words})

\* Strategy 4: a name is taken from a non-empty answer other than the
\* sentinel.
inferred_any(answer) == answer # ""
inferred(answer) == answer # "" /\ answer # Unknown

\* _add_meeting_id_to_client on the session's copy: the list with the id
\* appended.
add_meeting_id_replace(ids, id) == {id}
add_meeting_id_to_client(ids, id) == ids \cup {id}

(* ------------------ process_recording, steps 5 to 10 ------------------- *)
Others2 == <<ingest_scheduled, invocations, returned, budget, settings>>

\* identify_client returns client c (0 for None) to task t, the clients
\* table being cs and the session's copies sn; `call` holds "identify" when
\* the text-generation request was made and name is the name looked up last
\* or answered, which a caller of identify_client on its own keeps.
\* process_recording then stores client_id and commits, or goes on to ask
\* for a manual identification.
identified(t, c, cs, sn, call, name) ==
    LET back == [tasks[t] EXCEPT
                    !.client = c, !.seen = <<>>, !.calls = @ \cup call,
                    !.name = IF tasks[t].origin = "resolver" THEN name ELSE ""]
        id == zoom_meeting_id(t)
    IN
    /\ clients' = cs
    /\ returned' = IF c # 0 /\ returned[id] = 0
                     THEN [returned EXCEPT ![id] = c] ELSE returned
    /\ IF tasks[t].origin = "resolver"
         THEN /\ tasks' = [tasks EXCEPT ![t] = [back EXCEPT !.pc = "resolved"]]
              /\ UNCHANGED recordings
         ELSE IF c # 0
         THEN /\ recordings' = [recordings EXCEPT ![tasks[t].rid].client_id = c]
              /\ tasks' = [tasks EXCEPT ![t] =
                             [back EXCEPT !.pc = "set_saving",
                                          !.client_notion = sn[c].notion_page_id,
                                          !.client_row =
                                             [meeting_count |-> sn[c].meeting_count,
                                              last_meeting_at |->
                                                 sn[c].last_meeting_at]]]
         ELSE /\ UNCHANGED recordings
              /\ tasks' = [tasks EXCEPT ![t] = [back EXCEPT !.pc = "notify_ident"]]
    /\ UNCHANGED <<ingest_scheduled, invocations, budget, settings>>

\* identify_client raises at `call`: to the handler of process_recording.
identify_client_raises(t, call) ==
    [tasks[t] EXCEPT
        !.pc = IF tasks[t].origin = "resolver" THEN "resolved"
                                               ELSE on_exception("set_saving"),
        !.failed_at = call, !.e_len = ErrorLength(call),
        !.retried = [call |-> call, n |-> invocations_of(call)],
        !.seen = <<>>, !.name = ""]

\* _match_by_meeting_id: select all clients; a match is returned at once,
\* otherwise the title is searched for a bracketed name.
identify_client_match_by_meeting_id(t) ==
    /\ tasks[t].pc = "identify"
    /\ LET sn == Load(tasks[t].seen, clients, 1..Len(clients))
           by_id == match_by_meeting_id(sn, zoom_meeting_id(t))
           client_name == extract_client_from_title(meeting_title(t))
       IN IF by_id # 0
            THEN identified(t, by_id, clients, sn, {}, "")
            ELSE /\ tasks' = [tasks EXCEPT ![t] =
                        [@ EXCEPT !.seen = sn, !.name = client_name,
                                  !.pc = IF client_name # "" THEN "get_or_create"
                                                             ELSE "match_pattern"]]
                 /\ UNCHANGED <<recordings, clients>>
                 /\ UNCHANGED Others2

\* _match_by_title_pattern: select all clients; a match gets the meeting id
\* added; without a match the text-generation request is made when there is
\* a transcript start.
identify_client_match_by_title_pattern(t) ==
    /\ tasks[t].pc = "match_pattern"
    /\ LET sn == Load(tasks[t].seen, clients, 1..Len(clients))
           by_pattern == match_by_title_pattern(sn, meeting_title(t))
       IN IF by_pattern # 0 /\ zoom_meeting_id(t) \in sn[by_pattern].zoom_meeting_ids
            THEN identified(t, by_pattern, clients, sn, {}, "")
          ELSE IF by_pattern = 0 /\ ~ transcript_start(t)
            THEN identified(t, 0, clients, sn, {}, "")
          ELSE /\ tasks' = [tasks EXCEPT ![t] =
                      [@ EXCEPT !.seen = sn, !.client = by_pattern,
                                !.pc = IF by_pattern # 0 THEN "add_meeting_id"
                                                         ELSE "infer"]]
               /\ UNCHANGED <<recordings, clients>>
               /\ UNCHANGED Others2

\* summary_service.identify_client returns the stripped answer, or raises
\* after its last attempt.
identify_client_infer(t) ==
    /\ tasks[t].pc = "infer"
    /\ \/ \E answer \in IF tasks[t].origin = "resolver" THEN ResolverAnswers
                                                        ELSE AiAnswers :
            LET inferred_name == Strip(answer) IN
            IF inferred(inferred_name)
              THEN /\ tasks' = [tasks EXCEPT ![t] =
                          [@ EXCEPT !.pc = "get_or_create", !.name = inferred_name,
                                    !.calls = @ \cup {"identify"}]]
                   /\ UNCHANGED <<recordings, clients>>
                   /\ UNCHANGED Others2
              ELSE identified(t, 0, clients, tasks[t].seen, {"identify"}, inferred_name)
       \/ /\ CanFail
          /\ budget' = budget - 1
          /\ tasks' = [tasks EXCEPT ![t] =
                         [identify_client_raises(t, "identify") EXCEPT
                             !.calls = @ \cup {"identify"}]]
          /\ UNCHANGED <<recordings, clients, ingest_scheduled, invocations,
                         returned, settings>>

\* _get_or_create_client: select the client of the name; one that is found
\* gets the meeting id added, otherwise a new client is inserted.
get_or_create_client_select(t) ==
    /\ tasks[t].pc = "get_or_create"
    /\ LET found == FirstClient({i \in 1..Len(clients) :
                                    clients[i].name = tasks[t].name})
           sn == IF found = 0 THEN tasks[t].seen
                              ELSE Load(tasks[t].seen, clients, {found})
       IN IF found # 0 /\ zoom_meeting_id(t) \in sn[found].zoom_meeting_ids
            THEN identified(t, found, clients, sn, {}, tasks[t].name)
            ELSE /\ tasks' = [tasks EXCEPT ![t] =
                        [@ EXCEPT !.seen = sn, !.client = found,
                                  !.pc = IF found # 0 THEN "add_meeting_id"
                                                      ELSE "create_client"]]
                 /\ UNCHANGED <<recordings, clients>>
                 /\ UNCHANGED Others2

\* client.set_zoom_meeting_ids(meeting_ids); commit: the column gets the
\* list of the session's copy with the id appended.
add_meeting_id_to_client_commit(t) ==
    /\ tasks[t].pc = "add_meeting_id"
    /\ LET c == tasks[t].client
           ids == add_meeting_id_to_client(tasks[t].seen[c].zoom_meeting_ids,
                                           zoom_meeting_id(t))
       IN identified(t, c, [clients EXCEPT ![c].zoom_meeting_ids = ids],
                     [tasks[t].seen EXCEPT ![c].zoom_meeting_ids = ids], {},
                     tasks[t].name)

\* session.add(client); commit; refresh.  A commit that violates the unique
\* constraint on the name raises out of identify_client.
get_or_create_client_insert(t) ==
    /\ tasks[t].pc = "create_client"
    /\ LET client == DBClient(tasks[t].name, zoom_meeting_id(t))
           c == Len(clients) + 1
       IN IF UniqueName(clients, tasks[t].name)
            THEN identified(t, c, Append(clients, client),
                            Load(tasks[t].seen, Append(clients, client), {c}), {},
                            tasks[t].name)
            ELSE /\ tasks' = [tasks EXCEPT ![t] =
                                identify_client_raises(t, "get_or_create")]
                 /\ UNCHANGED <<recordings, clients>>
                 /\ UNCHANGED Others2

\* Step 5: client_service.identify_client, one database or text-generation
\* call at a time.
identify_client(t) ==
    \/ identify_client_match_by_meeting_id(t)
    \/ identify_client_match_by_title_pattern(t)
    \/ identify_client_infer(t)
    \/ get_or_create_client_select(t)
    \/ add_meeting_id_to_client_commit(t)
    \/ get_or_create_client_insert(t)

\* A notification returns at once when Slack is disabled, otherwise it is
\* sent and may raise.
NotificationMayFail == settings.slack_enabled

\* send_client_identification_request returns (no client was identified).
process_recording_notify_ident(t) ==
    /\ tasks[t].pc = "notify_ident"
    /\ \/ /\ tasks' = [tasks EXCEPT ![t] = Step(t, "notify_ident", "set_saving")]
          /\ UNCHANGED <<recordings, clients>>
          /\ UNCHANGED Others2
       \/ /\ NotificationMayFail
          /\ Raise(t, "notify_ident", "set_saving")

\* update_status(SAVING); then the client page is created only for a
\* client whose (session copy of) notion_page_id is empty.
process_recording_set_saving(t) ==
    /\ tasks[t].pc = "set_saving"
    /\ recordings' = [recordings EXCEPT ![tasks[t].rid] = update_status(@, SAVING)]
    /\ tasks' = [tasks EXCEPT ![t] =
                   [@ EXCEPT !.hist = Append(@, SAVING),
                             !.pc = IF tasks[t].client # 0 /\ tasks[t].client_notion = None
                                      THEN "client_page" ELSE "meeting_page"]]
    /\ UNCHANGED Others

\* notion_service.create_client_page returns; client.notion_page_id committed.
process_recording_client_page(t) ==
    /\ tasks[t].pc = "client_page"
    /\ \/ /\ clients' = [clients EXCEPT ![tasks[t].client].notion_page_id = "page"]
          /\ tasks' = [tasks EXCEPT ![t] =
                         [Step(t, "client_page", "meeting_page") EXCEPT
                             !.client_notion = "page"]]
          /\ UNCHANGED recordings
          /\ UNCHANGED Others2
       \/ Raise(t, "client_page", "meeting_page")

\* recording.notion_page_id = notion_page_id; commit.
store_notion_page_id_skipped(rec) == rec
store_notion_page_id(rec) == [rec EXCEPT !.notion_page_id = "page"]

\* notion_service.create_meeting_page returns; recording.notion_page_id committed.
process_recording_meeting_page(t) ==
    /\ tasks[t].pc = "meeting_page"
    /\ \/ /\ recordings' = [recordings EXCEPT ![tasks[t].rid] = store_notion_page_id(@)]
          /\ tasks' = [tasks EXCEPT ![t] = Step(t, "meeting_page", "sheet_master")]
          /\ UNCHANGED Others
       \/ Raise(t, "meeting_page", "sheet_master")

\* The steps that only an identified client gets.
client_only_always(c, pc, otherwise) == pc
client_only(c, pc, otherwise) == IF c # 0 THEN pc ELSE otherwise

\* sheets_service.append_meeting_record returns.
process_recording_sheet_master(t) ==
    /\ tasks[t].pc = "sheet_master"
    /\ LET nxt == client_only(tasks[t].client, "sheet_client", "calendar_find") IN
       \/ /\ tasks' = [tasks EXCEPT ![t] = Step(t, "sheet_master", nxt)]
          /\ UNCHANGED <<recordings, clients>>
          /\ UNCHANGED Others2
       \/ Raise(t, "sheet_master", nxt)

\* sheets_service.append_to_client_sheet returns.
process_recording_sheet_client(t) ==
    /\ tasks[t].pc = "sheet_client"
    /\ \/ /\ tasks' = [tasks EXCEPT ![t] = Step(t, "sheet_client", "calendar_find")]
          /\ UNCHANGED <<recordings, clients>>
          /\ UNCHANGED Others2
       \/ Raise(t, "sheet_client", "calendar_find")

\* Step 8 runs for an identified client, else step 9 follows step 7.
after_calendar(t) == client_only(tasks[t].client, "rollup", "notify_complete")

\* calendar_service.find_event_by_zoom_meeting returns an event or None.
process_recording_calendar_find(t) ==
    /\ tasks[t].pc = "calendar_find"
    /\ \/ \E found \in BOOLEAN :
            /\ tasks' = [tasks EXCEPT ![t] =
                           Step(t, "calendar_find",
                                IF found THEN "calendar_update" ELSE after_calendar(t))]
            /\ UNCHANGED <<recordings, clients>>
            /\ UNCHANGED Others2
       \/ Raise(t, "calendar_find", after_calendar(t))

\* calendar_service.update_event_with_recording returns; the event id is committed.
process_recording_calendar_update(t) ==
    /\ tasks[t].pc = "calendar_update"
    /\ \/ /\ recordings' = [recordings EXCEPT ![tasks[t].rid].calendar_event_id = "event"]
          /\ tasks' = [tasks EXCEPT ![t] = Step(t, "calendar_update", after_calendar(t))]
          /\ UNCHANGED Others
       \/ Raise(t, "calendar_update", after_calendar(t))

(* ------------------- cumulative-summary aggregator --------------------- *)
\* The recordings of client c that have a summary.
summarized_meetings(rs, c) ==
    {i \in 1..Len(rs) : rs[i].client_id = c /\ rs[i].summary # None}

\* .order_by(DBRecording.start_time): the rows S by ascending start time.
RECURSIVE order_by_start_time(_, _)
order_by_start_time(rs, S) ==
    IF S = {} THEN <<>>
    ELSE LET m == CHOOSE x \in S : \A y \in S : rs[x].start_time <= rs[y].start_time
         IN <<m>> \o order_by_start_time(rs, S \ {m})

\* generate_cumulative_summary: a text made from the dated summaries in the
\* order they are given, here the dates themselves in that order.
generate_cumulative_summary(rs, meetings) ==
    [i \in 1..Len(meetings) |-> rs[meetings[i]].start_time]

\* meetings[-1]
last_meeting_first(meetings) == meetings[1]
last_meeting(meetings) == meetings[Len(meetings)]

\* client_service.update_client_summary, the assignments to the client row.
update_client_summary_accumulating(client, rs, meetings, cumulative) ==
    [client EXCEPT !.cumulative_summary = cumulative,
                   !.meeting_count = @ + Len(meetings),
                   !.last_meeting_at = rs[last_meeting(meetings)].start_time]
update_client_summary(client, rs, meetings, cumulative) ==
    [client EXCEPT !.cumulative_summary = cumulative,
                   !.meeting_count = Len(meetings),
                   !.last_meeting_at = rs[last_meeting(meetings)].start_time]

\* if not meetings: return "" (no request is made, nothing is assigned).
return_empty_after_request(task, pc) ==
    [task EXCEPT !.pc = pc, !.cumulative = <<>>, !.calls = @ \cup {"rollup"}]
return_empty(task, pc) == [task EXCEPT !.pc = pc, !.cumulative = <<>>]

\* Where update_client_summary returns to: the next step of the pipeline
\* (the Notion client page is updated when the client has one), or the end
\* of a refresh task.
after_rollup(t) ==
    IF tasks[t].origin = "refresh" THEN "refreshed"
    ELSE IF tasks[t].client_notion # None THEN "notion_rollup"
    ELSE "sheet_rollup"

\* The texts the request may return for the same summaries: the pipeline
\* is followed with one wording, a refresh with two.
reworded(text) == Append(text, 0)
cumulative_texts(t, text) ==
    IF tasks[t].origin = "refresh" THEN {text, reworded(text)} ELSE {text}

\* Step 8: update_client_summary selects the client and its summarized
\* recordings; without any it returns "" at once.
process_recording_rollup(t) ==
    /\ tasks[t].pc = "rollup"
    /\ LET nxt == after_rollup(t)
           meetings == order_by_start_time(
                          recordings, summarized_meetings(recordings, tasks[t].client))
           task == IF tasks[t].origin = "refresh"
                     THEN [tasks[t] EXCEPT !.snapshot = recordings]
                     ELSE tasks[t]
       IN tasks' = [tasks EXCEPT ![t] =
                      IF meetings = <<>>
                        THEN return_empty(task, nxt)
                        ELSE [task EXCEPT !.pc = "rollup_commit",
                                          !.meetings = meetings]]
    /\ UNCHANGED <<recordings, clients>>
    /\ UNCHANGED Others2

\* generate_cumulative_summary returns, the client row is updated and
\* committed and update_client_summary returns the text; the Notion client
\* page is updated next when the client has one.
process_recording_rollup_commit(t) ==
    /\ tasks[t].pc = "rollup_commit"
    /\ LET nxt == after_rollup(t)
           c == tasks[t].client
           text == generate_cumulative_summary(recordings, tasks[t].meetings)
       IN
       \/ \E cumulative \in cumulative_texts(t, text) :
            LET row == update_client_summary(clients[c], recordings,
                                             tasks[t].meetings, cumulative)
            IN
            /\ clients' = [clients EXCEPT ![c] = row]
            /\ tasks' = [tasks EXCEPT ![t] =
                           [Step(t, "rollup", nxt) EXCEPT
                               !.cumulative = cumulative,
                               !.meetings = <<>>,
                               !.client_row =
                                  [meeting_count |-> row.meeting_count,
                                   last_meeting_at |-> row.last_meeting_at]]]
            /\ UNCHANGED recordings
            /\ UNCHANGED Others2
       \/ Raise(t, "rollup", nxt)

\* meeting_count=client.meeting_count, last_meeting_date=recording.start_time
\* (cumulative_summary is the text update_client_summary returned).
rollup_arguments(t, to) ==
    [to |-> to, meeting_count |-> tasks[t].client_row.meeting_count,
     last_meeting_date |-> recordings[tasks[t].rid].start_time]

\* notion_service.update_client_summary returns.
process_recording_notion_rollup(t) ==
    /\ tasks[t].pc = "notion_rollup"
    /\ \/ /\ tasks' = [tasks EXCEPT ![t] =
                         [Step(t, "notion_rollup", "sheet_rollup") EXCEPT
                             !.propagated = Append(@, rollup_arguments(t, "notion"))]]
          /\ UNCHANGED <<recordings, clients>>
          /\ UNCHANGED Others2
       \/ Raise(t, "notion_rollup", "sheet_rollup")

\* sheets_service.update_client_summary returns.
process_recording_sheet_rollup(t) ==
    /\ tasks[t].pc = "sheet_rollup"
    /\ \/ /\ tasks' = [tasks EXCEPT ![t] =
                         [Step(t, "sheet_rollup", "notify_complete") EXCEPT
                             !.propagated = Append(@, rollup_arguments(t, "sheets"))]]
          /\ UNCHANGED <<recordings, clients>>
          /\ UNCHANGED Others2
       \/ Raise(t, "sheet_rollup", "notify_complete")

\* Step 10: status COMPLETED and completed_at committed.
mark_completed(rec) == [rec EXCEPT !.status = COMPLETED, !.completed_at = "now"]

\* Steps 9 and 10: send_processing_complete returns, the recording is marked
\* completed and the downloaded file is removed when auto-delete is set.
process_recording_notify_complete(t) ==
    /\ tasks[t].pc = "notify_complete"
    /\ \/ /\ recordings' = [recordings EXCEPT ![tasks[t].rid] = mark_completed(@)]
          /\ tasks' = [tasks EXCEPT ![t] =
                         [StepStatus(t, "notify_complete", "done", COMPLETED) EXCEPT
                            !.downloaded_file =
                               @ /\ ~ settings.auto_delete_after_processing]]
          /\ UNCHANGED Others
       \/ /\ NotificationMayFail
          /\ Raise(t, "notify_complete", "done")

\* except Exception: status FAILED, error_message and retry_count committed.
process_recording_handler(t) ==
    /\ tasks[t].pc = "handler"
    /\ recordings' = [recordings EXCEPT ![tasks[t].rid] =
                        mark_failed(@, tasks[t].retry_count, tasks[t].e_len)]
    /\ tasks' = [tasks EXCEPT ![t] =
                   [@ EXCEPT !.pc = "notify_error", !.hist = Append(@, FAILED)]]
    /\ UNCHANGED Others

\* send_processing_error returns or raises (its exception is swallowed); the
\* downloaded file is removed; the original exception is raised again.
process_recording_notify_error(t) ==
    /\ tasks[t].pc = "notify_error"
    /\ \E sent \in {TRUE} \cup {~ NotificationMayFail} :
         tasks' = [tasks EXCEPT ![t] =
                     [@ EXCEPT !.pc = "done", !.downloaded_file = FALSE,
                               !.calls = @ \cup {IF sent THEN "notify_error"
                                                         ELSE "notify_error_failed"}]]
    /\ UNCHANGED recordings
    /\ UNCHANGED Others

\* An invocation of the decorated method awaited at the task's pc raises,
\* it is not the wrapper's last attempt, the wrapper sleeps and goes on to
\* invoke the method again.  Nothing of the database changes.
process_recording_retry(t) ==
    /\ LET call == awaited_call(tasks[t].pc)
           n == IF tasks[t].retried.call = call THEN tasks[t].retried.n ELSE 0
       IN /\ call \in DOMAIN async_retry_sites
          /\ call \in {"notify_ident", "notify_complete", "notify_error"}
                 => NotificationMayFail
          /\ n + 1 < async_retry_sites[call]
          /\ ~ is_last_attempt(n + 1, async_retry_sites[call])
          /\ tasks' = [tasks EXCEPT ![t].retried = [call |-> call, n |-> n + 1]]
    /\ UNCHANGED <<recordings, clients>>
    /\ UNCHANGED Others2

\* An invocation of download_recording has opened its file
\* ({meeting_id}_{timestamp}.{ext}, a name of its own) and raises while the
\* response is streamed; it is not the wrapper's last attempt, so the wrapper
\* sleeps and invokes the method again.  The file stays where it is: neither
\* the method nor the wrapper removes it, and process_recording has no path
\* to it.
download_recording_partial(t) ==
    /\ tasks[t].pc = "download"
    /\ LET n == IF tasks[t].retried.call = "download" THEN tasks[t].retried.n ELSE 0
       IN /\ ~ is_last_attempt(n + 1, async_retry_sites["download"])
          /\ n + 1 < async_retry_sites["download"]
          /\ tasks' = [tasks EXCEPT ![t].retried = [call |-> "download", n |-> n + 1],
                                    ![t].partial_files = @ + 1]
    /\ UNCHANGED <<recordings, clients>>
    /\ UNCHANGED Others2

\* A background task ends (a call made by the sweep returns to the sweep).
task_return(t) ==
    /\ tasks[t].pc = "done"
    /\ tasks[t].origin # "sweep"
    /\ tasks' = [tasks EXCEPT ![t] = IdleTask]
    /\ UNCHANGED recordings
    /\ UNCHANGED Others

(* ---------------------------- manual retry ----------------------------- *)
\* retry_meeting: status PENDING, error_message None (updated_at is not kept).
retry_reset_count(rec) ==
    [rec EXCEPT !.status = PENDING, !.error_message = 0, !.retry_count = 0]
retry_reset(rec) == [rec EXCEPT !.status = PENDING, !.error_message = 0]

\* if recording.status != ProcessingStatus.FAILED: HTTP 400.
retry_allowed_unless_completed(rec) == rec.status # COMPLETED
retry_allowed(rec) == rec.status = FAILED

\* retry_meeting up to the status check: HTTP 400 unless the status is failed.
retry_meeting_check(r) ==
    /\ FreeSlots # {}
    /\ IF retry_allowed(recordings[r])
         THEN tasks' = [tasks EXCEPT ![FreeSlot] =
                          [IdleTask EXCEPT !.pc = "retry_commit", !.rid = r]]
         ELSE UNCHANGED tasks
    /\ UNCHANGED <<recordings, clients, ingest_scheduled, invocations, returned,
                   budget, settings>>

\* retry_meeting from the reset to add_task(process_recording, meeting_id).
retry_meeting_commit(t) ==
    /\ tasks[t].pc = "retry_commit"
    /\ recordings' = [recordings EXCEPT ![tasks[t].rid] = retry_reset(@)]
    /\ tasks' = [tasks EXCEPT ![t] = NewTask(tasks[t].rid, "manual", <<PENDING>>)]
    /\ UNCHANGED <<clients, ingest_scheduled, invocations, returned, budget, settings>>

\* retry_meeting raises HTTPException: 404 when the select finds no row,
\* 400 when the row is not failed.  Nothing was assigned and no task was
\* queued; the request ends with the error.
retry_meeting_rejected(r) ==
    /\ FreeSlots # {}
    /\ IF r \in RecIds THEN ~ retry_allowed(recordings[r]) ELSE TRUE
    /\ tasks' = [tasks EXCEPT ![FreeSlot] =
                   [IdleTask EXCEPT !.pc = "http_error", !.origin = "manual",
                                    !.rid = r,
                                    !.e_len = IF r \in RecIds THEN 400 ELSE 404]]
    /\ UNCHANGED <<recordings, clients, ingest_scheduled, invocations, returned,
                   budget, settings>>

\* The error response has been sent.
retry_meeting_rejected_done(t) ==
    /\ tasks[t].pc = "http_error"
    /\ tasks' = [tasks EXCEPT ![t] = IdleTask]
    /\ UNCHANGED <<recordings, clients, ingest_scheduled, invocations, returned,
                   budget, settings>>

(* ----------------------------- bulk sweep ------------------------------ *)
\* where(status == FAILED, retry_count < 3)
sweep_filter_inclusive(rec) == rec.status = FAILED /\ rec.retry_count <= RetryCeiling
sweep_filter(rec) == rec.status = FAILED /\ rec.retry_count < RetryCeiling

\* The ids of S in ascending order.
RECURSIVE Ascending(_)
Ascending(S) ==
    IF S = {} THEN <<>>
    ELSE LET m == CHOOSE x \in S : \A y \in S : x <= y
         IN <<m>> \o Ascending(S \ {m})

\* except Exception around process_recording: the loop goes on to the next
\* recording whether the call raised or not.
sweep_continue(list, idx, raised) == idx + 1

\* retry_failed_recordings: the select.
retry_failed_recordings_select ==
    /\ FreeSlots # {}
    /\ tasks' = [tasks EXCEPT ![FreeSlot] =
                   [IdleTask EXCEPT
                      !.pc = "sweep_loop", !.idx = 1,
                      !.list = Ascending({r \in RecIds : sweep_filter(recordings[r])}),
                      !.eligible = {r \in RecIds :
                                      /\ recordings[r].status = "failed"
                                      /\ recordings[r].retry_count < 3}]]
    /\ UNCHANGED <<recordings, clients, ingest_scheduled, invocations, returned,
                   budget, settings>>

\* await process_recording(recording.id) is entered.
retry_failed_recordings_call(t) ==
    /\ tasks[t].pc = "sweep_loop"
    /\ tasks[t].idx <= Len(tasks[t].list)
    /\ tasks' = [tasks EXCEPT ![t] =
                   [NewTask(tasks[t].list[tasks[t].idx], "sweep", <<>>) EXCEPT
                      !.list = tasks[t].list, !.idx = tasks[t].idx,
                      !.eligible = tasks[t].eligible,
                      !.invoked = Append(tasks[t].invoked,
                                         tasks[t].list[tasks[t].idx])]]
    /\ UNCHANGED <<recordings, clients, ingest_scheduled, invocations, returned,
                   budget, settings>>

\* process_recording returned or raised to the sweep.
retry_failed_recordings_resume(t) ==
    /\ tasks[t].pc = "done"
    /\ tasks[t].origin = "sweep"
    /\ tasks' = [tasks EXCEPT ![t] =
                   [IdleTask EXCEPT
                      !.pc = "sweep_loop", !.list = tasks[t].list,
                      !.eligible = tasks[t].eligible,
                      !.invoked = tasks[t].invoked,
                      !.idx = sweep_continue(tasks[t].list, tasks[t].idx,
                                             tasks[t].failed_at # None)]]
    /\ UNCHANGED <<recordings, clients, ingest_scheduled, invocations, returned,
                   budget, settings>>

\* The loop is over: retry_failed_recordings returns.
retry_failed_recordings_end(t) ==
    /\ tasks[t].pc = "sweep_loop"
    /\ tasks[t].idx > Len(tasks[t].list)
    /\ tasks' = [tasks EXCEPT ![t] = IdleTask]
    /\ UNCHANGED <<recordings, clients, ingest_scheduled, invocations, returned,
                   budget, settings>>

(* -------------------- identify_client on its own ----------------------- *)
\* A caller with a session of its own calls
\* identify_client(title, id, transcript_start).
identify_client_call(title, id, excerpt) ==
    /\ FreeSlots # {}
    /\ tasks' = [tasks EXCEPT ![FreeSlot] =
                   [IdleTask EXCEPT !.pc = "identify", !.origin = "resolver",
                                    !.title = title, !.zoom_meeting_id = id,
                                    !.excerpt = excerpt]]
    /\ UNCHANGED <<recordings, clients>>
    /\ UNCHANGED Others2

\* The caller has its result and closes its session.
identify_client_done(t) ==
    /\ tasks[t].pc = "resolved"
    /\ tasks' = [tasks EXCEPT ![t] = IdleTask]
    /\ UNCHANGED <<recordings, clients>>
    /\ UNCHANGED Others2

(* ------------------------- the clients API ----------------------------- *)
\* DBClient(name=request.name, description=request.description), for a
\* request without title patterns and meeting ids.
DBClientRequested(name) ==
    [name |-> name, zoom_meeting_ids |-> {}, title_patterns |-> {},
     notion_page_id |-> None, meeting_count |-> 0, last_meeting_at |-> 0,
     cumulative_summary |-> <<>>]

\* POST /clients up to its select: HTTP 400 when a client has the name.
create_client_select(name) ==
    /\ FreeSlots # {}
    /\ IF UniqueName(clients, name)
         THEN tasks' = [tasks EXCEPT ![FreeSlot] =
                          [IdleTask EXCEPT !.pc = "create_client_commit",
                                           !.origin = "api", !.name = name]]
         ELSE UNCHANGED tasks
    /\ UNCHANGED <<recordings, clients>>
    /\ UNCHANGED Others2

\* session.add(client); commit: the row is inserted, or the unique
\* constraint on the name ends the request with an error.
create_client_commit(t) ==
    /\ tasks[t].pc = "create_client_commit"
    /\ clients' = IF UniqueName(clients, tasks[t].name)
                    THEN Append(clients, DBClientRequested(tasks[t].name))
                    ELSE clients
    /\ tasks' = [tasks EXCEPT ![t] = IdleTask]
    /\ UNCHANGED recordings
    /\ UNCHANGED Others2

\* POST /clients/{client_id}/refresh-summary for a client that exists: the
\* background task, with a session of its own, calls update_client_summary.
refresh_client_summary(c) ==
    /\ FreeSlots # {}
    /\ tasks' = [tasks EXCEPT ![FreeSlot] =
                   [IdleTask EXCEPT !.pc = "rollup", !.origin = "refresh",
                                    !.client = c]]
    /\ UNCHANGED <<recordings, clients>>
    /\ UNCHANGED Others2

\* The caller calls update_client_summary for the client once more.
update_client_summary_again(t) ==
    /\ tasks[t].pc = "refreshed"
    /\ tasks[t].failed_at = None
    /\ tasks' = [tasks EXCEPT ![t] =
                   [IdleTask EXCEPT
                      !.pc = "rollup", !.origin = "refresh",
                      !.client = tasks[t].client,
                      !.previous =
                         [called |-> TRUE, snapshot |-> tasks[t].snapshot,
                          cumulative |-> tasks[t].cumulative,
                          meeting_count |-> clients[tasks[t].client].meeting_count,
                          last_meeting_at |->
                             clients[tasks[t].client].last_meeting_at]]]
    /\ UNCHANGED <<recordings, clients>>
    /\ UNCHANGED Others2

\* The background task ends.
refresh_client_summary_done(t) ==
    /\ tasks[t].pc = "refreshed"
    /\ tasks' = [tasks EXCEPT ![t] = IdleTask]
    /\ UNCHANGED <<recordings, clients>>
    /\ UNCHANGED Others2

\* POST /clients/{client_id}/assign-meeting/{meeting_id} up to its third
\* select: HTTP 404 when the client or the meeting does not exist.  The
\* session keeps the client row as loaded; meeting.client_id is assigned
\* before the recordings of the client are selected and the session flushes
\* before a select, so the meeting is among the rows selected.
assign_meeting_to_client_select(c, r) ==
    /\ FreeSlots # {}
    /\ IF c \in 1..Len(clients) /\ r \in RecIds
         THEN tasks' = [tasks EXCEPT ![FreeSlot] =
                          [IdleTask EXCEPT
                             !.pc = "assign_commit", !.origin = "api",
                             !.client = c, !.rid = r, !.seen = clients,
                             !.meetings =
                                Ascending({i \in RecIds :
                                              i = r \/ recordings[i].client_id = c})]]
         ELSE UNCHANGED tasks
    /\ UNCHANGED <<recordings, clients>>
    /\ UNCHANGED Others2

\* client.meeting_count = len(meetings) + 1, last_meeting_at and the
\* learned ids (meeting_ids.append unless the id is in the list) are assigned
\* and the commit writes the columns that changed in the session, with
\* meeting.client_id.
assign_meeting_to_client_commit(t) ==
    /\ tasks[t].pc = "assign_commit"
    /\ LET c == tasks[t].client
           r == tasks[t].rid
           meeting == recordings[r]
           meeting_ids == tasks[t].seen[c].zoom_meeting_ids
       IN /\ recordings' = [recordings EXCEPT ![r].client_id = c]
          /\ clients' = [clients EXCEPT
                           ![c].meeting_count = Len(tasks[t].meetings) + 1,
                           ![c].last_meeting_at = meeting.start_time,
                           ![c].zoom_meeting_ids =
                              IF meeting.zoom_meeting_id \in meeting_ids THEN @
                              ELSE meeting_ids \cup {meeting.zoom_meeting_id}]
    /\ tasks' = [tasks EXCEPT ![t] = IdleTask]
    /\ UNCHANGED Others2

(* ---------------------- async_retry on its own ------------------------- *)
\* The parameters of the decorator: max_attempts from 0 (an empty range),
\* integer delays, an initial delay below, at and above the maximum.
RetryConfigs ==
    [max_attempts : 0..MaxAttempts, initial_delay : {1, 2, 3}, max_delay : {2, 3},
     exponential_base : {1, 2}]

\* A decorated function is called: last_exception = None,
\* delay = initial_delay, and the loop starts if its range is not empty.
async_retry_call(cfg) ==
    /\ FreeSlots # {}
    /\ tasks' = [tasks EXCEPT ![FreeSlot] =
                   [IdleTask EXCEPT
                      !.pc = IF 1 \in attempt_range(cfg.max_attempts)
                               THEN "wrapper_attempt" ELSE "wrapper_after_loop",
                      !.origin = "wrapper",
                      !.wrapper = [NoWrapper EXCEPT
                                     !.max_attempts = cfg.max_attempts,
                                     !.initial_delay = cfg.initial_delay,
                                     !.max_delay = cfg.max_delay,
                                     !.exponential_base = cfg.exponential_base,
                                     !.attempt = 1,
                                     !.delay = cfg.initial_delay]]]
    /\ UNCHANGED <<recordings, clients>>
    /\ UNCHANGED Others2

\* One pass of the loop body up to the sleep: the function is invoked and
\* returns, raises an exception of `exceptions`, or raises another one.
async_retry_attempt(t) ==
    /\ tasks[t].pc = "wrapper_attempt"
    /\ \E result \in {"ok", "caught", "uncaught"} :
         LET w == tasks[t].wrapper
             k == Len(w.results) + 1
             w1 == [w EXCEPT !.results = Append(@, result)]
             w2 == [w1 EXCEPT !.last_exception = k]
         IN tasks' = [tasks EXCEPT ![t] =
              IF result = "ok"
                THEN [@ EXCEPT !.pc = "wrapper_done",
                               !.wrapper = return_result(w1, k)]
              ELSE IF result = "uncaught"
                THEN [@ EXCEPT !.pc = "wrapper_done",
                               !.wrapper = raise_current(w1, k)]
              ELSE IF is_last_attempt(w.attempt, w.max_attempts)
                THEN [@ EXCEPT !.pc = "wrapper_done",
                               !.wrapper = raise_current(w2, k)]
              ELSE [@ EXCEPT !.pc = "wrapper_sleep", !.wrapper = w2]]
    /\ UNCHANGED <<recordings, clients>>
    /\ UNCHANGED Others2

\* await asyncio.sleep(delay) returns; the delay grows; the loop goes on
\* with the next attempt, or ends.
async_retry_sleep(t) ==
    /\ tasks[t].pc = "wrapper_sleep"
    /\ LET w == tasks[t].wrapper IN
       tasks' = [tasks EXCEPT ![t] =
                   [@ EXCEPT
                      !.pc = IF w.attempt + 1 \in attempt_range(w.max_attempts)
                               THEN "wrapper_attempt" ELSE "wrapper_after_loop",
                      !.wrapper = [w EXCEPT !.sleeps = Append(@, w.delay),
                                            !.delay = next_delay(w),
                                            !.attempt = @ + 1]]]
    /\ UNCHANGED <<recordings, clients>>
    /\ UNCHANGED Others2

\* raise last_exception, after the loop; raising None is a TypeError.
async_retry_after_loop(t) ==
    /\ tasks[t].pc = "wrapper_after_loop"
    /\ tasks' = [tasks EXCEPT ![t] =
                   [@ EXCEPT !.pc = "wrapper_done",
                             !.wrapper = raise_current(@, @.last_exception)]]
    /\ UNCHANGED <<recordings, clients>>
    /\ UNCHANGED Others2

\* The caller has the result or the exception.
async_retry_done(t) ==
    /\ tasks[t].pc = "wrapper_done"
    /\ tasks' = [tasks EXCEPT ![t] = IdleTask]
    /\ UNCHANGED <<recordings, clients>>
    /\ UNCHANGED Others2

(* ---------------------------- calendar lookup -------------------------- *)
\* Texts are sequences of characters.  str.lower on the characters used.
lower(text) ==
    LET lower_char(ch) == CASE ch = "A" -> "a"
                            [] ch = "C" -> "c"
                            [] ch = "M" -> "m"
                            [] ch = "E" -> "e"
                            [] OTHER -> ch
    IN [i \in 1..Len(text) |-> lower_char(text[i])]

\* `sub in text` of two strings.
contains(text, sub) ==
    \E i \in 0..(Len(text) - Len(sub)) : SubSeq(text, i + 1, i + Len(sub)) = sub

\* str.split(): the words between runs of blanks.
RECURSIVE split(_)
split(text) ==
    IF text = <<>> THEN <<>>
    ELSE IF Head(text) = " " THEN split(Tail(text))
    ELSE LET blanks == {i \in 1..Len(text) : text[i] = " "}
             n == IF blanks = {} THEN Len(text) + 1
                  ELSE CHOOSE i \in blanks : \A j \in blanks : i <= j
         IN <<SubSeq(text, 1, n - 1)>> \o split(SubSeq(text, n, Len(text)))

\* The events of the calendar: description, title and start (in minutes).
Events ==
    [description : {<<>>, <<"1", "2">>, <<"z", "/", "2", "1">>},
     summary : {<<>>, <<"A", "C", "M", "E", " ", "q">>, <<"a", "b">>},
     start : {0, 20}]

\* The calendar orders its events by start time (orderBy="startTime").
Calendars ==
    {cal \in UNION {[1..n -> Events] : n \in 0..MaxEvents} :
        \A i \in 1..(Len(cal) - 1) : cal[i].start <= cal[i + 1].start}

\* events().list(timeMin = start - 15 min, timeMax = start + 15 min).
events_list(calendar, meeting_start_time) ==
    LET in_window(event) == /\ meeting_start_time - 15 <= event.start
                            /\ event.start <= meeting_start_time + 15
    IN SelectSeq(calendar, in_window)

\* zoom_meeting_id in description.
id_in_description(event, meeting_id) ==
    contains(event.description, meeting_id)

\* any(word in event_summary for word in topic_lower.split() if len(word) > 2)
words_overlap(event, topic) ==
    LET event_summary == lower(event.summary)
        words == split(lower(topic))
    IN \E k \in 1..Len(words) :
          /\ Len(words[k]) > 2
          /\ contains(event_summary, words[k])

\* The loop of _find from event i on: the first event that passes either
\* test is returned, None (0) after the last one.
RECURSIVE find(_, _, _, _)
find(events, i, meeting_id, topic) ==
    IF i > Len(events) THEN 0
    ELSE IF id_in_description(events[i], meeting_id) THEN i
    ELSE IF words_overlap(events[i], topic) THEN i
    ELSE find(events, i + 1, meeting_id, topic)

\* A caller awaits find_event_by_zoom_meeting and gets its answer.
find_event_by_zoom_meeting(calendar, meeting_id, meeting_start_time, topic) ==
    /\ FreeSlots # {}
    /\ LET events == events_list(calendar, meeting_start_time) IN
       tasks' = [tasks EXCEPT ![FreeSlot] =
                   [IdleTask EXCEPT
                      !.pc = "event_found", !.origin = "lookup",
                      !.lookup = [zoom_meeting_id |-> meeting_id,
                                  topic |-> topic, events |-> events,
                                  found |-> find(events, 1, meeting_id, topic)]]]
    /\ UNCHANGED <<recordings, clients>>
    /\ UNCHANGED Others2

\* The caller has used the answer.
find_event_by_zoom_meeting_done(t) ==
    /\ tasks[t].pc = "event_found"
    /\ tasks' = [tasks EXCEPT ![t] = IdleTask]
    /\ UNCHANGED <<recordings, clients>>
    /\ UNCHANGED Others2

(* --------------------------- specification ----------------------------- *)
process_recording(t) ==
    \/ process_recording_start(t)
    \/ process_recording_download(t)
    \/ process_recording_upload(t)
    \/ process_recording_set_transcribing(t)
    \/ process_recording_transcribe(t)
    \/ process_recording_set_summarizing(t)
    \/ process_recording_summarize(t)
    \/ identify_client(t)
    \/ process_recording_notify_ident(t)
    \/ process_recording_set_saving(t)
    \/ process_recording_client_page(t)
    \/ process_recording_meeting_page(t)
    \/ process_recording_sheet_master(t)
    \/ process_recording_sheet_client(t)
    \/ process_recording_calendar_find(t)
    \/ process_recording_calendar_update(t)
    \/ process_recording_rollup(t)
    \/ process_recording_rollup_commit(t)
    \/ process_recording_notion_rollup(t)
    \/ process_recording_sheet_rollup(t)
    \/ process_recording_notify_complete(t)
    \/ process_recording_handler(t)
    \/ process_recording_notify_error(t)

Next ==
    \/ \E u \in DOMAIN ingest_scheduled, m \in BOOLEAN :
          handle_recording_completed_check(u, m)
    \/ \E t \in TaskIds : handle_recording_completed_insert(t)
    \/ \E t \in TaskIds : process_recording(t)
    \/ \E t \in TaskIds : task_return(t)
    \/ \E r \in RecIds : retry_meeting_check(r)
    \/ \E t \in TaskIds : retry_meeting_commit(t)
    \/ retry_failed_recordings_select
    \/ \E t \in TaskIds : retry_failed_recordings_call(t)
    \/ \E t \in TaskIds : retry_failed_recordings_resume(t)
    \/ \E t \in TaskIds : retry_failed_recordings_end(t)

Spec == Init /\ [][Next]_vars
SpecRace == InitRace /\ [][Next]_vars
SpecSweeps == InitSweeps /\ [][Next]_vars

NextResolver ==
    \/ \E title \in Titles, id \in MeetingIds, excerpt \in BOOLEAN :
          identify_client_call(title, id, excerpt)
    \/ \E t \in TaskIds : identify_client(t)
    \/ \E t \in TaskIds : identify_client_done(t)

SpecResolver == InitResolver /\ [][NextResolver]_vars

\* The pipeline with the failed attempts that the wrapper retries as steps.
NextAttempts ==
    \/ Next
    \/ \E t \in TaskIds : process_recording_retry(t)

SpecAttempts == InitAttempts /\ [][NextAttempts]_vars

\* The same with the download attempts that leave a file behind.
NextFiles ==
    \/ NextAttempts
    \/ \E t \in TaskIds : download_recording_partial(t)

SpecFiles == InitAttempts /\ [][NextFiles]_vars

\* The pipeline and the requests of the clients API.
NextClients ==
    \/ Next
    \/ \E name \in {"Acme", "Beta"} : create_client_select(name)
    \/ \E t \in TaskIds : create_client_commit(t)
    \/ \E c \in 1..Len(clients) : refresh_client_summary(c)
    \/ \E t \in TaskIds : update_client_summary_again(t)
    \/ \E t \in TaskIds : refresh_client_summary_done(t)

SpecClients == InitClients /\ [][NextClients]_vars

\* Overlapping pipelines, and one client that is created through the API.
NextClientsRace ==
    \/ Next
    \/ create_client_select("Acme")
    \/ \E t \in TaskIds : create_client_commit(t)

SpecClientsRace == InitClientsRace /\ [][NextClientsRace]_vars

\* The pipeline, one client that is created through the API, and manual
\* assignments of meetings to clients.
NextAssign ==
    \/ Next
    \/ create_client_select("Beta")
    \/ \E t \in TaskIds : create_client_commit(t)
    \/ \E c \in 1..(Len(clients) + 1), r \in 1..(Len(recordings) + 1) :
          assign_meeting_to_client_select(c, r)
    \/ \E t \in TaskIds : assign_meeting_to_client_commit(t)

SpecAssign ==
    /\ InitWith(AssignUuid, AssignTasks, AssignFailures, DefaultSettings)
    /\ [][NextAssign]_vars

\* The pipeline with the rejected retry requests as steps.
NextManual ==
    \/ Next
    \/ \E r \in 1..(Len(recordings) + 1) : retry_meeting_rejected(r)
    \/ \E t \in TaskIds : retry_meeting_rejected_done(t)

SpecManual == InitManual /\ [][NextManual]_vars

NextRetry ==
    \/ \E cfg \in RetryConfigs : async_retry_call(cfg)
    \/ \E t \in TaskIds : async_retry_attempt(t)
    \/ \E t \in TaskIds : async_retry_sleep(t)
    \/ \E t \in TaskIds : async_retry_after_loop(t)
    \/ \E t \in TaskIds : async_retry_done(t)

SpecRetry == InitRetry /\ [][NextRetry]_vars
\* Every invocation of the wrapped function and every sleep ends.
SpecRetryFair ==
    /\ SpecRetry
    /\ \A t \in 1..RetryCallers :
          WF_vars(async_retry_attempt(t) \/ async_retry_sleep(t)
                    \/ async_retry_after_loop(t))

\* Calendar lookups on their own, for two meeting ids, two start times
\* and three topics.
NextCalendar ==
    \/ \E calendar \in Calendars,
          meeting_id \in {<<"1", "2">>, <<"2", "1">>},
          meeting_start_time \in {0, 10},
          topic \in {<<"A", "c", "m", "e">>,
                     <<"a", "b", " ", " ", "A", "c", "m", "e">>, <<"a", "b">>} :
          find_event_by_zoom_meeting(calendar, meeting_id,
                                     meeting_start_time, topic)
    \/ \E t \in TaskIds : find_event_by_zoom_meeting_done(t)

SpecCalendar ==
    InitWith(0, LookupCallers, 0, DefaultSettings) /\ [][NextCalendar]_vars

(* ------------------------------ claims --------------------------------- *)
\* C1: in every invocation of process_recording that ends completed, however
\* it was started, the statuses persisted for the recording during the run
\* are pending, downloading, uploading_youtube, transcribing, summarizing,
\* saving, completed, each once and in this order.
C1_StatusOrder ==
    \A t \in TaskIds :
        (tasks[t].pc = "done" /\ tasks[t].failed_at = None) =>
            tasks[t].hist = <<PENDING, DOWNLOADING, UPLOADING_YOUTUBE,
                              TRANSCRIBING, SUMMARIZING, SAVING, COMPLETED>>

\* C2 as stated: when transcribe fails after the upload of the same
\* invocation succeeded, the failure handler leaves the recording failed,
\* with the video url stored and with no transcript stored, on first and on
\* retried attempts alike.
C2_TranscribeFailure ==
    [][\A t \in TaskIds :
         (/\ tasks[t].pc = "handler"
          /\ tasks[t].failed_at = "transcribe"
          /\ "upload" \in tasks[t].calls
          /\ tasks'[t].pc = "notify_error") =>
             LET r == tasks[t].rid IN
               /\ recordings'[r].status = FAILED
               /\ recordings'[r].youtube_url # None
               /\ recordings'[r].transcript = None]_vars

\* C2 amended: when transcribe fails after the upload of the same invocation
\* succeeded, the failure handler leaves the recording failed, with the video
\* url stored, and the invocation stores no transcript: the transcript is
\* what it was before, which is none on the attempt started by ingestion.
C2_TranscribeFailureAmended ==
    [][\A t \in TaskIds :
         (/\ tasks[t].pc = "handler"
          /\ tasks[t].failed_at = "transcribe"
          /\ "upload" \in tasks[t].calls
          /\ tasks'[t].pc = "notify_error") =>
             LET r == tasks[t].rid IN
               /\ recordings'[r].status = FAILED
               /\ recordings'[r].youtube_url # None
               /\ recordings'[r].transcript = recordings[r].transcript
               /\ tasks[t].origin = "ingest" => recordings'[r].transcript = None]_vars

\* A retried attempt has failed at transcribe and the transcript of an
\* earlier attempt is still stored.
C2_Witness ==
    \E t \in TaskIds :
        /\ tasks[t].pc = "notify_error"
        /\ tasks[t].failed_at = "transcribe"
        /\ tasks[t].origin # "ingest"
        /\ recordings[tasks[t].rid].status = FAILED
        /\ recordings[tasks[t].rid].youtube_url # None
        /\ recordings[tasks[t].rid].transcript # None

\* C3: under any interleaving of recording-completed events there is at most
\* one recording per zoom_meeting_uuid and ingestion has scheduled exactly one
\* task for each recording; the insert of an event whose uuid has a recording
\* creates nothing, changes nothing and schedules nothing.
C3_OneRecordingPerUuid ==
    [][/\ \A i, j \in 1..Len(recordings') :
            recordings'[i].zoom_meeting_uuid = recordings'[j].zoom_meeting_uuid
                => i = j
       /\ \A u \in UUIDs :
            /\ ingest_scheduled'[u] <= 1
            /\ ingest_scheduled'[u] =
                 Cardinality({i \in 1..Len(recordings') :
                                recordings'[i].zoom_meeting_uuid = u})
       /\ \A t \in TaskIds :
            (/\ tasks[t].pc = "hook_insert"
             /\ \E i \in RecIds : recordings[i].zoom_meeting_uuid = tasks[t].uuid
             /\ tasks'[t] # tasks[t]) =>
                /\ recordings' = recordings
                /\ clients' = clients
                /\ ingest_scheduled' = ingest_scheduled
                /\ \A s \in TaskIds : tasks'[s].pc # "scheduled"
                                        \/ tasks'[s] = tasks[s]]_vars

\* Two events for one uuid raced: the recording of the first exists, with its
\* task scheduled, while the second has passed the duplicate check.
C3_Witness ==
    \E t \in TaskIds :
        /\ tasks[t].pc = "hook_insert"
        /\ ingest_scheduled[tasks[t].uuid] = 1
        /\ \E i \in RecIds : recordings[i].zoom_meeting_uuid = tasks[t].uuid

C5_NoLaterStage ==
    [][\A t \in TaskIds :
         /\ tasks'[t].failed_at # None =>
              /\ tasks'[t].pc \in {"handler", "notify_error", "done"}
              /\ \A c \in tasks'[t].calls :
                    \/ c \in {"notify_error", "notify_error_failed"}
                    \/ CallIndex(c) <= CallIndex(tasks'[t].failed_at)
              /\ COMPLETED \notin {tasks'[t].hist[i] : i \in 1..Len(tasks'[t].hist)}
         /\ (tasks[t].failed_at # None /\ tasks'[t] # tasks[t]) =>
              /\ \/ tasks'[t].hist = tasks[t].hist
                 \/ /\ tasks'[t].hist = Append(tasks[t].hist, FAILED)
                    /\ FAILED \notin {tasks[t].hist[i] : i \in 1..Len(tasks[t].hist)}
                 \/ tasks'[t].pc = "idle"
                 \/ tasks'[t].pc = "sweep_loop"
              /\ clients' = clients
              /\ \A r \in RecIds :
                    recordings'[r] = [recordings[r] EXCEPT
                                        !.status = recordings'[r].status,
                                        !.error_message = recordings'[r].error_message,
                                        !.retry_count = recordings'[r].retry_count
                                     ]]_vars

\* An invocation failed while creating the meeting page and has ended: the
\* master sheet, the calendar and the completion notice were never reached.
C5_Witness ==
    \E t \in TaskIds :
        /\ tasks[t].pc = "done"
        /\ tasks[t].failed_at = "meeting_page"
        /\ recordings[tasks[t].rid].status = FAILED
        /\ recordings[tasks[t].rid].notion_page_id = None
        /\ tasks[t].calls \cap {"sheet_master", "calendar_find", "notify_complete"} = {}

\* C6: the completion notification or the identification request raising
\* never makes the recording failed.
C6_NotificationBestEffort ==
    \A t \in TaskIds :
        tasks[t].failed_at \in {"notify_ident", "notify_complete"} =>
            \/ tasks[t].hist = <<>>
            \/ tasks[t].hist[Len(tasks[t].hist)] # FAILED

\* C7: the calendar lookup or the calendar update raising never makes the
\* recording failed, and when no event is found the update is skipped and
\* the invocation goes on.
C7_CalendarBestEffort ==
    \A t \in TaskIds :
        /\ tasks[t].failed_at \in {"calendar_find", "calendar_update"} =>
              FAILED \notin {tasks[t].hist[i] : i \in 1..Len(tasks[t].hist)}
        /\ (tasks[t].pc \in {"rollup", "notify_complete"}
               /\ "calendar_find" \in tasks[t].calls
               /\ "calendar_update" \notin tasks[t].calls) =>
              tasks[t].failed_at = None
\* C8: when identify_client returns no client, the identification request is
\* sent, the invocation never sets the recording's client_id (it is unset on
\* the attempt started by ingestion), the client page, the client sheet and
\* the rollup are skipped, and as long as no call raises the invocation goes
\* on through saving to completed without a failed status and without a
\* change of retry_count.
C8_AttributionMiss ==
    [][\A t \in TaskIds :
         LET miss(task) == \/ task.pc = "notify_ident"
                           \/ "notify_ident" \in task.calls
             r == tasks[t].rid
         IN
         /\ (tasks[t].pc \in {"identify", "match_pattern", "infer"}
                /\ tasks'[t].pc = "notify_ident") =>
               recordings' = recordings
         /\ miss(tasks'[t]) =>
               /\ tasks'[t].client = 0
               /\ tasks'[t].calls \cap {"client_page", "sheet_client", "rollup",
                                        "notion_rollup", "sheet_rollup"} = {}
               /\ tasks'[t].failed_at = None =>
                     /\ tasks'[t].origin = "ingest" =>
                           recordings'[tasks'[t].rid].client_id = 0
                     /\ tasks'[t].pc \in {"notify_ident", "set_saving", "meeting_page",
                                          "sheet_master", "calendar_find",
                                          "calendar_update", "notify_complete", "done"}
                     /\ FAILED \notin {tasks'[t].hist[i] : i \in 1..Len(tasks'[t].hist)}
                     /\ tasks'[t].pc = "done" =>
                           tasks'[t].hist[Len(tasks'[t].hist)] = COMPLETED
         /\ (miss(tasks[t]) /\ tasks[t].failed_at = None /\ tasks'[t] # tasks[t]) =>
               /\ recordings'[r].client_id = recordings[r].client_id
               /\ recordings'[r].retry_count = recordings[r].retry_count
               /\ recordings'[r].status \in {SAVING, COMPLETED, recordings[r].status}
               /\ clients' = clients]_vars

\* An invocation whose resolver found no client has ended completed: the
\* request was sent, the recording has no client and retry_count is as read.
C8_Witness ==
    \E t \in TaskIds :
        /\ tasks[t].pc = "done"
        /\ "notify_ident" \in tasks[t].calls
        /\ tasks[t].failed_at = None
        /\ recordings[tasks[t].rid].status = COMPLETED
        /\ recordings[tasks[t].rid].client_id = 0
        /\ recordings[tasks[t].rid].retry_count = tasks[t].retry_count

\* C9: retry_meeting on a failed recording sets status pending, clears the
\* error text, changes neither retry_count nor any output and schedules one
\* process_recording, which starts at the download and, when it completes,
\* has made the call of every stage whatever earlier attempts had stored.
C9_ManualRetry ==
    [][\A t \in TaskIds :
         /\ (tasks[t].pc = "retry_commit" /\ tasks'[t] # tasks[t]) =>
               LET r == tasks[t].rid IN
                 /\ recordings[r].status = FAILED =>
                      /\ recordings' = [recordings EXCEPT
                                          ![r] = [@ EXCEPT !.status = PENDING,
                                                           !.error_message = 0]]
                      /\ tasks'[t].pc = "scheduled"
                      /\ tasks'[t].rid = r
                      /\ \A s \in TaskIds \ {t} : tasks'[s] = tasks[s]
         /\ (tasks[t].origin = "manual" /\ tasks[t].pc = "scheduled"
                /\ tasks'[t] # tasks[t]) =>
               /\ tasks'[t].pc = "download"
               /\ recordings'[tasks[t].rid].status = DOWNLOADING
         /\ (tasks'[t].origin = "manual" /\ tasks'[t].pc = "done"
                /\ tasks'[t].failed_at = None) =>
               {"download", "upload", "transcribe", "summarize", "meeting_page",
                "sheet_master", "calendar_find", "notify_complete"}
                   \subseteq tasks'[t].calls]_vars

\* A manually retried invocation has downloaded again and is uploading again
\* although an earlier attempt stored the url and the transcript; the
\* retry_count of the earlier failure is still there and the error is cleared.
C9_Witness ==
    \E t \in TaskIds :
        /\ tasks[t].origin = "manual"
        /\ tasks[t].pc = "upload"
        /\ "download" \in tasks[t].calls
        /\ recordings[tasks[t].rid].youtube_url # None
        /\ recordings[tasks[t].rid].transcript # None
        /\ recordings[tasks[t].rid].retry_count = 1
        /\ recordings[tasks[t].rid].error_message = 0

\* C10: one run of retry_failed_recordings calls process_recording once for
\* each recording that was failed with retry_count < 3 at its select and for
\* no other; the sweep itself deletes and modifies no recording.
C10_Sweep ==
    [][\A t \in TaskIds :
         LET before == tasks[t]
             after == tasks'[t]
             Called(task) == {task.invoked[i] : i \in 1..Len(task.invoked)}
         IN
         /\ (before.pc = "idle" /\ after.pc = "sweep_loop") =>
               /\ after.invoked = <<>>
               /\ after.eligible = {r \in RecIds : /\ recordings[r].status = FAILED
                                                   /\ recordings[r].retry_count < 3}
               /\ recordings' = recordings
         /\ (before.pc = "sweep_loop" /\ after # before) =>
               /\ recordings' = recordings
               /\ \/ /\ after.pc = "scheduled"
                     /\ after.origin = "sweep"
                     /\ after.eligible = before.eligible
                     /\ after.rid \in before.eligible \ Called(before)
                     /\ after.invoked = Append(before.invoked, after.rid)
                  \/ /\ after.pc = "idle"
                     /\ Called(before) = before.eligible
                     /\ Len(before.invoked) = Cardinality(before.eligible)
         /\ (before.origin = "sweep" /\ after # before) =>
               /\ after.eligible = before.eligible
               /\ after.invoked = before.invoked
               /\ after.pc # "sweep_loop" => after.rid = before.rid
               /\ \A r \in RecIds \ {before.rid} : recordings'[r] = recordings[r]
         /\ Len(recordings') >= Len(recordings)]_vars

\* A sweep has ended its loop after calling process_recording for the one
\* recording it selected, while a failed recording whose retry_count is 3
\* was left out.
C10_Witness ==
    \E t \in TaskIds :
        /\ tasks[t].pc = "sweep_loop"
        /\ tasks[t].idx > Len(tasks[t].list)
        /\ Len(tasks[t].invoked) = 1
        /\ \E r \in RecIds :
              /\ recordings[r].status = FAILED
              /\ recordings[r].retry_count = 3
              /\ r \notin tasks[t].eligible
              /\ r # tasks[t].invoked[1]

\* C12: the retry count of a recording starts at 0 and never exceeds the
\* ceiling 3, whatever sequence of ingestion, pipeline runs, sweeps and
\* manual retries has happened.
C12_RetryCountBounded ==
    \A r \in RecIds : recordings[r].retry_count <= RetryCeiling

\* C13: completed is terminal: once the status of a recording is persisted
\* as completed, no step of a pipeline invocation, of a manual retry or of a
\* sweep changes its status again.
C13_CompletedTerminal ==
    [][\A r \in RecIds :
         recordings[r].status = COMPLETED => recordings'[r].status = COMPLETED]_vars

\* C11: a recording that only its ingestion run and sweeps process (no
\* manual retry) has process_recording called for it at most 3 times in all.
C11_ThreeAttempts ==
    \A r \in RecIds :
        invocations[r].manual = 0 =>
            invocations[r].ingest + invocations[r].sweep <= RetryCeiling

\* C14: when the learned ids of some client contain the meeting id,
\* identify_client returns, at its first lookup and whatever the title, a
\* client whose learned ids contain it, creates and modifies no client and
\* makes no text-generation request.
C14_ResolverPrecedence ==
    [][\A t \in TaskIds :
         (/\ tasks[t].pc = "identify"
          /\ tasks'[t] # tasks[t]
          /\ \E c \in 1..Len(clients) :
                zoom_meeting_id(t) \in clients[c].zoom_meeting_ids) =>
             /\ tasks'[t].pc \in {"resolved", "set_saving"}
             /\ tasks'[t].failed_at = None
             /\ tasks'[t].client \in 1..Len(clients)
             /\ zoom_meeting_id(t) \in clients[tasks'[t].client].zoom_meeting_ids
             /\ clients' = clients
             /\ tasks'[t].calls = tasks[t].calls]_vars

\* identify_client has returned the client that holds the meeting id for a
\* title that carries the name of another client in brackets, without a
\* text-generation request.
C14_Witness ==
    \E t \in TaskIds :
        /\ tasks[t].pc = "resolved"
        /\ tasks[t].failed_at = None
        /\ tasks[t].calls = {}
        /\ tasks[t].client # 0
        /\ tasks[t].zoom_meeting_id \in clients[tasks[t].client].zoom_meeting_ids
        /\ clients[tasks[t].client].name = "Beta"
        /\ tasks[t].title.full = " Acme "
        /\ \E c \in 1..Len(clients) : clients[c].name = "Acme"

\* C15: when identify_client returns a client through the bracketed name,
\* the title patterns or the text-generation answer, the learned ids stored
\* for that client contain the meeting id at the return and have lost none of
\* the ids they held before.
C15_ResolverWriteBack ==
    [][\A t \in TaskIds :
         (/\ tasks[t].pc \in {"match_pattern", "get_or_create", "add_meeting_id",
                              "create_client"}
          /\ tasks'[t].pc \in {"resolved", "set_saving"}
          /\ tasks'[t].failed_at = None
          /\ tasks'[t].client # 0) =>
             LET c == tasks'[t].client IN
             /\ c \in 1..Len(clients')
             /\ zoom_meeting_id(t) \in clients'[c].zoom_meeting_ids
             /\ \A i \in 1..Len(clients) :
                   clients[i].zoom_meeting_ids \subseteq clients'[i].zoom_meeting_ids]_vars

\* identify_client has returned, on a text-generation answer, a client that
\* held one meeting id before and now holds the given one as well.
C15_Witness ==
    \E t \in TaskIds :
        /\ tasks[t].pc = "resolved"
        /\ tasks[t].failed_at = None
        /\ tasks[t].calls = {"identify"}
        /\ tasks[t].client # 0
        /\ tasks[t].zoom_meeting_id = "m2"
        /\ clients[tasks[t].client].zoom_meeting_ids = {"m1", "m2"}

\* C16: once identify_client has returned a client for a meeting id, every
\* later call with that meeting id returns the same client, whatever its
\* title and whatever calls for other meetings came in between.
C16_ResolverIdempotence ==
    [][\A t \in TaskIds :
         (/\ tasks[t].pc \in {"identify", "match_pattern", "get_or_create",
                              "add_meeting_id", "create_client"}
          /\ tasks'[t].pc \in {"resolved", "set_saving"}
          /\ tasks'[t].failed_at = None
          /\ tasks'[t].client # 0) =>
             /\ returned[zoom_meeting_id(t)] \in {0, tasks'[t].client}
             /\ returned'[zoom_meeting_id(t)] = tasks'[t].client]_vars

\* A second client exists, and a call whose title carries the name Beta in
\* brackets has returned Acme, the client returned for the meeting id before.
C16_Witness ==
    \E t \in TaskIds :
        /\ tasks[t].pc = "resolved"
        /\ tasks[t].client # 0
        /\ returned[tasks[t].zoom_meeting_id] = tasks[t].client
        /\ tasks[t].title.full = ""
        /\ tasks[t].title.ascii = "Beta"
        /\ clients[tasks[t].client].name = "Acme"
        /\ Len(clients) = 2

C19_InferenceTier ==
    [][\A t \in TaskIds :
         LET none(task) == /\ task.pc \in {"resolved", "notify_ident"}
                           /\ task.failed_at = None
                           /\ task.client = 0
             matched == \E c \in 1..Len(clients) :
                           Lower(clients[c].name) \in meeting_title(t).words
         IN
         /\ (/\ tasks[t].pc = "match_pattern"
             /\ tasks'[t] # tasks[t]
             /\ ~ matched) =>
               IF transcript_start(t)
                 THEN tasks'[t].pc = "infer" /\ clients' = clients
                 ELSE /\ none(tasks'[t])
                      /\ tasks'[t].calls = tasks[t].calls
                      /\ clients' = clients
         /\ (/\ tasks[t].pc = "infer"
             /\ tasks[t].origin = "resolver"
             /\ tasks'[t] # tasks[t]
             /\ tasks'[t].failed_at = None) =>
               /\ "identify" \in tasks'[t].calls
               /\ clients' = clients
               /\ IF tasks'[t].name \in {"", Unknown}
                    THEN none(tasks'[t])
                    ELSE tasks'[t].pc = "get_or_create"
         /\ (/\ tasks[t].pc \in {"get_or_create", "add_meeting_id", "create_client"}
             /\ "identify" \in tasks[t].calls
             /\ tasks'[t] # tasks[t]) =>
               /\ tasks[t].name \notin {"", Unknown}
               /\ tasks'[t].failed_at = None
               /\ tasks'[t].pc = "resolved" =>
                     /\ tasks'[t].client \in 1..Len(clients')
                     /\ clients'[tasks'[t].client].name = tasks[t].name
                     /\ zoom_meeting_id(t) \in
                           clients'[tasks'[t].client].zoom_meeting_ids
                     /\ \A c \in 1..Len(clients) : clients[c].name # tasks[t].name
                           => tasks'[t].client = Len(clients) + 1]_vars

\* identify_client has returned None on the sentinel answer while a client
\* exists, and no client holds the meeting id.
C19_Witness ==
    \E t \in TaskIds :
        /\ tasks[t].pc = "resolved"
        /\ tasks[t].failed_at = None
        /\ tasks[t].calls = {"identify"}
        /\ tasks[t].name = Unknown
        /\ tasks[t].client = 0
        /\ Len(clients) = 1
        /\ tasks[t].zoom_meeting_id \notin clients[1].zoom_meeting_ids

\* C20: update_client_summary selects exactly the recordings of the client
\* that have a summary, by ascending start time; when it returns normally
\* the client's meeting_count is their number, its last_meeting_at their
\* greatest start time and its cumulative summary the text just generated
\* (the old one is replaced), and that text was generated from the summaries
\* in ascending start-time order.
C20_ClientRollup ==
    [][\A t \in TaskIds :
         LET c == tasks[t].client
             read == tasks'[t].meetings
             meetings == tasks[t].meetings
             Starts == {recordings[meetings[i]].start_time : i \in 1..Len(meetings)}
         IN
         /\ (tasks[t].pc = "rollup" /\ tasks'[t].pc = "rollup_commit") =>
               /\ {read[i] : i \in 1..Len(read)} =
                     {r \in RecIds : /\ recordings[r].client_id = c
                                     /\ recordings[r].summary # None}
               /\ \A i \in 1..Len(read), j \in 1..Len(read) :
                     i < j => recordings[read[i]].start_time
                                 < recordings[read[j]].start_time
               /\ clients' = clients
         /\ (/\ tasks[t].pc = "rollup_commit"
             /\ tasks'[t] # tasks[t]
             /\ tasks'[t].failed_at = None) =>
               /\ Len(meetings) >= 1
               /\ clients'[c].meeting_count = Len(meetings)
               /\ clients'[c].last_meeting_at \in Starts
               /\ \A s \in Starts : s <= clients'[c].last_meeting_at
               /\ clients'[c].cumulative_summary = tasks'[t].cumulative
               /\ tasks'[t].cumulative =
                     [i \in 1..Len(meetings) |-> recordings[meetings[i]].start_time]
               /\ \A i \in 1..Len(meetings), j \in 1..Len(meetings) :
                     i < j => tasks'[t].cumulative[i] < tasks'[t].cumulative[j]]_vars

\* The rollup of a client with two summarized recordings has been stored by
\* the invocation for the older one, which was inserted second: the count is
\* 2, last_meeting_at the start time of the other recording, and the text
\* made from one summary has been replaced by the text made from both.
C20_Witness ==
    \E t \in TaskIds :
        /\ tasks[t].pc \in {"notion_rollup", "sheet_rollup"}
        /\ tasks[t].rid = 2
        /\ recordings[2].start_time = 1
        /\ recordings[1].start_time = 2
        /\ tasks[t].cumulative = <<1, 2>>
        /\ clients[tasks[t].client].cumulative_summary = <<1, 2>>
        /\ clients[tasks[t].client].meeting_count = 2
        /\ clients[tasks[t].client].last_meeting_at = 2

(* ------------------------------ C23 ------------------------------------ *)
\* C23: in every reachable state a recording's summary, decisions and
\* action items are all unset or all set; a summarize stage that raises
\* stores none of the three.
C23_SummariesTogether ==
    \A r \in RecIds :
        \/ /\ recordings[r].summary = None
           /\ recordings[r].decisions = None
           /\ recordings[r].action_items = None
        \/ /\ recordings[r].summary # None
           /\ recordings[r].decisions # None
           /\ recordings[r].action_items # None

\* A summarize stage that raised on a recording without earlier results, and
\* a recording whose three results are stored.
C23_Witness ==
    /\ \E t \in TaskIds :
          /\ tasks[t].failed_at = "summarize"
          /\ recordings[tasks[t].rid].summary = None
          /\ recordings[tasks[t].rid].status = FAILED
    /\ \E r \in RecIds : recordings[r].action_items # None

(* ------------------------------ C24 ------------------------------------ *)
\* C24: a status is committed only after the result of the stage before it:
\* from transcribing on the video url is stored, from summarizing on the
\* transcript, in saving and completed the summary, decisions and action
\* items, and in completed the reference of the meeting's page.
C24_StageResultsCommitted ==
    \A r \in RecIds :
        LET rec == recordings[r] IN
        /\ rec.status \in {TRANSCRIBING, SUMMARIZING, SAVING, COMPLETED}
              => rec.youtube_url # None
        /\ rec.status \in {SUMMARIZING, SAVING, COMPLETED}
              => rec.transcript # None
        /\ rec.status \in {SAVING, COMPLETED}
              => /\ rec.summary # None
                 /\ rec.decisions # None
                 /\ rec.action_items # None
        /\ rec.status = COMPLETED => rec.notion_page_id # None

\* A first invocation that reached completed, so that every stage stored
\* its result in this invocation.
C24_Witness ==
    \E t \in TaskIds :
        /\ tasks[t].origin = "ingest"
        /\ tasks[t].rid \in RecIds
        /\ recordings[tasks[t].rid].status = COMPLETED
        /\ recordings[tasks[t].rid].retry_count = 0
        /\ tasks[t].hist = <<PENDING, DOWNLOADING, UPLOADING_YOUTUBE, TRANSCRIBING,
                             SUMMARIZING, SAVING, COMPLETED>>

(* ------------------------------ C25 ------------------------------------ *)
\* C25: a call through the retry wrapper invokes the wrapped function at
\* most max_attempts times; when invocation k is the first that succeeds,
\* no invocation follows it and the call returns the result of invocation k
\* after exactly k invocations and k - 1 sleeps.
C25_AtMostMaxAttempts ==
    \A t \in TaskIds :
        tasks[t].origin = "wrapper" =>
            LET w == tasks[t].wrapper IN
            /\ w.max_attempts >= 0 => Len(w.results) <= w.max_attempts
            /\ \A k \in 1..Len(w.results) :
                  w.results[k] = "ok" =>
                     /\ k = Len(w.results)
                     /\ w.outcome = "returned"
                     /\ w.value = k
                     /\ Len(w.sleeps) = k - 1
                     /\ tasks[t].pc = "wrapper_done"

\* The third invocation is the first that succeeds.
C25_Witness ==
    \E t \in TaskIds :
        /\ tasks[t].origin = "wrapper"
        /\ tasks[t].wrapper.max_attempts = 3
        /\ tasks[t].wrapper.results = <<"caught", "caught", "ok">>
        /\ tasks[t].wrapper.outcome = "returned"

(* ------------------------------ C26 ------------------------------------ *)
\* C26: when all max_attempts invocations raise an exception the wrapper
\* catches, the call raises the exception of the last invocation after
\* exactly max_attempts invocations and max_attempts - 1 sleeps (none after
\* the last failure); every call through the wrapper ends.
C26_ExhaustionRaisesLast ==
    /\ [](\A t \in TaskIds :
            LET w == tasks[t].wrapper IN
            ( /\ tasks[t].origin = "wrapper"
              /\ w.max_attempts >= 1
              /\ tasks[t].pc \in {"wrapper_done", "wrapper_after_loop"}
              /\ Len(w.results) = w.max_attempts
              /\ \A k \in 1..Len(w.results) : w.results[k] = "caught" )
            => /\ tasks[t].pc = "wrapper_done"
               /\ w.outcome = "raised"
               /\ w.value = w.max_attempts
               /\ Len(w.sleeps) = w.max_attempts - 1)
    /\ \A t \in 1..RetryCallers :
          (tasks[t].origin = "wrapper") ~> (tasks[t].pc = "wrapper_done")

\* Three invocations raised and the call has raised.
C26_Witness ==
    \E t \in TaskIds :
        /\ tasks[t].pc = "wrapper_done"
        /\ tasks[t].wrapper.max_attempts = 3
        /\ tasks[t].wrapper.results = <<"caught", "caught", "caught">>
        /\ tasks[t].wrapper.outcome = "raised"
        /\ tasks[t].wrapper.sleeps # <<>>

(* ------------------------------ C27 ------------------------------------ *)
\* C27: every external call of the pipeline goes through the retry wrapper,
\* so that one invocation of such a call raising is not enough to fail the
\* recording: whenever an invocation of process_recording gives up on an
\* external call, at least two invocations of that call have raised.
C27_SingleFailureTolerated ==
    [][\A t \in TaskIds :
         (/\ tasks[t].origin \in {"ingest", "manual", "sweep"}
          /\ tasks[t].failed_at = None
          /\ tasks'[t].failed_at \in DOMAIN async_retry_sites \cup {"upload"})
         => tasks'[t].retried.n >= 2]_vars

(* ------------------------------ C28 ------------------------------------ *)
\* C28: the download is attempted up to 3 times within one invocation: an
\* attempt that is retried changes no recording and the last status the
\* invocation has persisted stays downloading, the invocation gives up on
\* the download only when 3 invocations of it have raised, and its failure
\* handler then stores retry_count as loaded plus one, which the rest of
\* the invocation leaves alone.
C28_DownloadAttempts ==
    [][\A t \in TaskIds :
         LET own == tasks'[t] # tasks[t]
             r == tasks[t].rid
         IN
         /\ (tasks[t].pc = "download" /\ tasks'[t].pc = "download" /\ own) =>
               /\ recordings' = recordings
               /\ tasks'[t].hist[Len(tasks'[t].hist)] = DOWNLOADING
               /\ tasks'[t].retried.call = "download"
               /\ tasks'[t].retried.n < 3
         /\ (tasks[t].pc = "download" /\ tasks'[t].pc = "handler") =>
               /\ recordings' = recordings
               /\ tasks'[t].retried = [call |-> "download", n |-> 3]
         /\ (tasks[t].failed_at = "download" /\ tasks[t].pc = "handler" /\ own) =>
               /\ recordings'[r].status = FAILED
               /\ recordings'[r].retry_count = tasks[t].retry_count + 1
         /\ (/\ tasks[t].failed_at = "download"
             /\ tasks[t].pc \in {"notify_error", "done"}
             /\ own)
            => recordings' = recordings]_vars

\* A rerun of a recording that failed once: two invocations of its download
\* have raised and the third is awaited, with the status downloading and
\* the retry count still 1.
C28_Witness ==
    \E t \in TaskIds :
        /\ tasks[t].pc = "download"
        /\ tasks[t].retried = [call |-> "download", n |-> 2]
        /\ recordings[tasks[t].rid].status = DOWNLOADING
        /\ recordings[tasks[t].rid].retry_count = 1

(* ------------------------------ C21 ------------------------------------ *)
\* C21: when no recording of the account has a summary,
\* update_client_summary returns the empty text without making the
\* text-generation request and changes no client row (cumulative summary,
\* meeting_count and last_meeting_at stay as they were).
C21_NoMeetingsNoChange ==
    [][\A t \in TaskIds :
         (/\ tasks[t].pc = "rollup"
          /\ tasks'[t] # tasks[t]
          /\ \A r \in RecIds : ~ (/\ recordings[r].client_id = tasks[t].client
                                  /\ recordings[r].summary # None))
         => /\ tasks'[t].pc = after_rollup(t)
            /\ tasks'[t].cumulative = <<>>
            /\ tasks'[t].calls = tasks[t].calls
            /\ "rollup" \notin tasks'[t].calls
            /\ clients' = clients
            /\ recordings' = recordings]_vars

\* A refresh of a client created through the API returned while a recording
\* with a summary exists that belongs to no client.
C21_Witness ==
    \E t \in TaskIds :
        /\ tasks[t].origin = "refresh"
        /\ tasks[t].pc = "refreshed"
        /\ tasks[t].failed_at = None
        /\ tasks[t].calls = {}
        /\ clients[tasks[t].client].meeting_count = 0
        /\ \E r \in RecIds : recordings[r].summary # None
        /\ \A r \in RecIds : recordings[r].client_id # tasks[t].client

(* ------------------------------ C22 ------------------------------------ *)
\* C22: when a caller calls update_client_summary twice in a row and the
\* second call selects from the same recordings as the first, the client's
\* meeting_count and last_meeting_at after the second call are those after
\* the first, whichever texts the two requests returned.
C22_RollupIdempotent ==
    [][\A t \in TaskIds :
         (/\ tasks[t].origin = "refresh"
          /\ tasks[t].previous.called
          /\ tasks[t].pc \in {"rollup", "rollup_commit"}
          /\ tasks'[t].pc = "refreshed"
          /\ tasks'[t].failed_at = None
          /\ tasks'[t].snapshot = tasks[t].previous.snapshot)
         => /\ clients'[tasks[t].client].meeting_count
                  = tasks[t].previous.meeting_count
            /\ clients'[tasks[t].client].last_meeting_at
                  = tasks[t].previous.last_meeting_at]_vars

\* The second of two calls for a client with two summarized recordings has
\* returned a text other than the first call's.
C22_Witness ==
    \E t \in TaskIds :
        /\ tasks[t].origin = "refresh"
        /\ tasks[t].pc = "refreshed"
        /\ tasks[t].failed_at = None
        /\ tasks[t].previous.called
        /\ tasks[t].previous.snapshot = recordings
        /\ tasks[t].previous.cumulative # tasks[t].cumulative
        /\ tasks[t].previous.meeting_count = 2
        /\ clients[tasks[t].client].meeting_count = 2
        /\ clients[tasks[t].client].last_meeting_at = 2

(* ------------------------------ C30 ------------------------------------ *)
\* C30: once the pipelines of all the recordings have ended in completed,
\* each client that has summarized recordings has their number as its
\* meeting_count and their greatest start time as its last_meeting_at, also
\* when the pipelines of two recordings of the client ran at the same time.
C30_FinalRollupValid ==
    ( /\ RecIds # {}
      /\ \A r \in RecIds : recordings[r].status = COMPLETED
      /\ \A t \in TaskIds : tasks[t].pc = "idle" )
    => \A c \in 1..Len(clients) :
          LET S == summarized_meetings(recordings, c) IN
          S # {} =>
             /\ clients[c].meeting_count = Cardinality(S)
             /\ \E r \in S : clients[c].last_meeting_at = recordings[r].start_time
             /\ \A r \in S : recordings[r].start_time <= clients[c].last_meeting_at

(* ------------------------------ C29 ------------------------------------ *)
\* C29: no commit removes a meeting id from the learned ids of a client,
\* whatever the interleaving of the pipelines that attribute recordings to
\* the client: an id a resolver call has added stays in the set.
C29_LearnedIdsKept ==
    [][\A c \in 1..Len(clients) :
          clients[c].zoom_meeting_ids \subseteq clients'[c].zoom_meeting_ids]_vars

(* ------------------------------ C31 ------------------------------------ *)
\* C31: a manual retry of a recording that is not failed is rejected with
\* HTTP 400 and one of a recording that does not exist with HTTP 404; a
\* rejected request changes no recording and queues no pipeline invocation,
\* and a request gets as far as its reset only for a failed recording.
C31_RetryRejected ==
    [][\A t \in TaskIds :
         /\ (tasks[t].pc # "http_error" /\ tasks'[t].pc = "http_error") =>
               /\ recordings' = recordings
               /\ invocations' = invocations
               /\ \A s \in TaskIds \ {t} : tasks'[s] = tasks[s]
               /\ IF tasks'[t].rid \in RecIds
                    THEN /\ recordings[tasks'[t].rid].status # FAILED
                         /\ tasks'[t].e_len = 400
                    ELSE tasks'[t].e_len = 404
         /\ (tasks[t].pc = "http_error" /\ tasks'[t] # tasks[t]) =>
               /\ tasks'[t].pc = "idle"
               /\ recordings' = recordings
               /\ invocations' = invocations
         /\ (tasks[t].pc = "idle" /\ tasks'[t].pc = "retry_commit") =>
               /\ tasks'[t].rid \in RecIds
               /\ recordings[tasks'[t].rid].status = FAILED]_vars

\* A retry of a completed recording has been rejected while the same
\* recording is unchanged.
C31_Witness ==
    \E t \in TaskIds :
        /\ tasks[t].pc = "http_error"
        /\ tasks[t].e_len = 400
        /\ recordings[tasks[t].rid].status = COMPLETED
        /\ recordings[tasks[t].rid].completed_at # None

(* ------------------------------ C32 ------------------------------------ *)
\* C32: for each recording at most one invocation of process_recording is
\* in flight, that is has persisted downloading and has not yet returned or
\* raised out of its failure handler, whichever of ingestion, manual retry
\* and the sweep started the invocations.
C32_OneInvocationInFlight ==
    \A r \in RecIds :
        Cardinality({t \in TaskIds :
                        /\ tasks[t].rid = r
                        /\ tasks[t].origin \in {"ingest", "manual", "sweep"}
                        /\ tasks[t].pc \notin {"idle", "scheduled", "done",
                                               "http_error", "sweep_loop"}}) <= 1

\* C33: the pipeline creates a client's page only when the client has no
\* stored page reference, so at most one page is ever created per client:
\* whenever create_client_page returns a new page to an invocation, the
\* client row holds no page reference yet.
C33_OneClientPage ==
    [][\A t \in TaskIds :
          (/\ tasks[t].pc = "client_page"
           /\ tasks'[t].pc = "meeting_page") =>
              clients[tasks[t].client].notion_page_id = None]_vars

\* C34: the stable-meeting-id match has priority over the keyword match:
\* when an event of the window has the id in its description the lookup
\* returns an event whose description contains the id, it returns an event
\* matched by title words alone only when no event of the window contains
\* the id, and it returns none when no event matches either way.
C34_IdMatchFirst ==
    \A t \in TaskIds :
        tasks[t].pc = "event_found" =>
            LET l == tasks[t].lookup
                with_id == {i \in 1..Len(l.events) :
                               id_in_description(l.events[i], l.zoom_meeting_id)}
                by_words == {i \in 1..Len(l.events) :
                                words_overlap(l.events[i], l.topic)}
            IN /\ with_id # {} => l.found \in with_id
               /\ l.found \in by_words \ with_id => with_id = {}
               /\ with_id \cup by_words = {} => l.found = 0
               /\ l.found # 0 => l.found \in with_id \cup by_words

\* C35: in every reachable state a completed recording has no stored error
\* message and a completion timestamp, and a recording that is not
\* completed has no completion timestamp.
C35_CompletionFields ==
    \A r \in RecIds :
        /\ recordings[r].status = COMPLETED =>
              /\ recordings[r].error_message = 0
              /\ recordings[r].completed_at # None
        /\ recordings[r].status # COMPLETED => recordings[r].completed_at = None

\* C36: no local media file of an invocation outlives it when it should be
\* deleted: when an invocation has ended in failed, neither its downloaded
\* file nor a file of one of its failed download attempts is left, and when
\* it has ended in completed with auto-delete set, its downloaded file is
\* gone.
C36_NoFileLeft ==
    \A t \in TaskIds :
        (/\ tasks[t].pc = "done"
         /\ tasks[t].origin \in {"ingest", "manual", "sweep"}) =>
            /\ tasks[t].failed_at # None =>
                  /\ ~ tasks[t].downloaded_file
                  /\ tasks[t].partial_files = 0
            /\ (tasks[t].failed_at = None /\ settings.auto_delete_after_processing) =>
                  ~ tasks[t].downloaded_file

(* ------------------------------ C37 ------------------------------------ *)
\* C37: in every reachable state each meeting id is in the learned ids of at
\* most one client, whatever the resolver calls and the manual assignments
\* of meetings to clients that have run.
C37_IdInOneClient ==
    \A c \in 1..Len(clients), d \in 1..Len(clients) :
        clients[c].zoom_meeting_ids \cap clients[d].zoom_meeting_ids # {} => c = d

(* ------------------------------ C38 ------------------------------------ *)
\* C38: the meeting count and the last-meeting date that the rollup stage
\* passes to the Notion client page and to the client's sheet are the
\* meeting_count and last_meeting_at that update_client_summary has just
\* assigned to the client, also when the recording in progress is not the
\* client's latest.
C38_PropagatedAsStored ==
    \A t \in TaskIds :
        "rollup" \in tasks[t].calls =>
            \A i \in 1..Len(tasks[t].propagated) :
                /\ tasks[t].propagated[i].meeting_count
                      = tasks[t].client_row.meeting_count
                /\ tasks[t].propagated[i].last_meeting_date
                      = tasks[t].client_row.last_meeting_at

(* ------------------------------ C39 ------------------------------------ *)
\* C39: for every configuration, max_attempts <= 0 included, a call through
\* the retry wrapper invokes the wrapped function at least once and ends by
\* returning a result of the function or by raising an exception that an
\* invocation of the function raised.
C39_InvokedAtLeastOnce ==
    \A t \in TaskIds :
        (tasks[t].origin = "wrapper" /\ tasks[t].pc = "wrapper_done") =>
            LET w == tasks[t].wrapper IN
            /\ Len(w.results) >= 1
            /\ w.value \in 1..Len(w.results)
            /\ \/ w.outcome = "returned" /\ w.results[w.value] = "ok"
               \/ w.outcome = "raised" /\ w.results[w.value] \in {"caught", "uncaught"}

(* ------------------------------ C40 ------------------------------------ *)
\* C40: the sleeps of the retry wrapper follow a capped exponential
\* backoff: the k-th sleep lasts
\* min(initial_delay * exponential_base^(k-1), max_delay); the sequence
\* starts at initial_delay, does not decrease for exponential_base >= 1 and
\* stays at max_delay once it has reached it.
C40_CappedBackoff ==
    \A t \in TaskIds :
        tasks[t].origin = "wrapper" =>
            LET w == tasks[t].wrapper
                uncapped(k) == w.initial_delay * w.exponential_base ^ (k - 1)
            IN /\ \A k \in 1..Len(w.sleeps) :
                     w.sleeps[k] = IF uncapped(k) < w.max_delay
                                     THEN uncapped(k) ELSE w.max_delay
               /\ \A k \in 1..(Len(w.sleeps) - 1) :
                     /\ w.exponential_base >= 1 => w.sleeps[k] <= w.sleeps[k + 1]
                     /\ w.sleeps[k] = w.max_delay => w.sleeps[k + 1] = w.max_delay
====
